---- MODULE Spec2Model ----
(***************************************************************************)
(* A model of the EVC elementary-stream handling of ffevc:                 *)
(*   - libavcodec/evc_parse.c          NAL header / length readers, SPS,   *)
(*                                     PPS and slice-header parsing        *)
(*   - libavcodec/evc_frame_merge_bsf.c the evc_frame_merge bitstream      *)
(*                                     filter (POC derivation, AU buffer)  *)
(*   - libavcodec/evc_parser.c         the chunked parser                  *)
(*                                     (evc_find_frame_end / evc_parse)    *)
(*   - libavformat/evcdec.c            the demuxer's evc_read_packet       *)
(* Streams and packets are sequences of bytes (0..255); parameter sets and *)
(* slice headers are decoded from their bits as the code decodes them.     *)
(***************************************************************************)
EXTENDS Integers, Sequences, FiniteSets, TLC

\* ------------------------------------------------------------------------
\* Program constants
\* ------------------------------------------------------------------------
EVC_NALU_LENGTH_PREFIX_SIZE == 4
EVC_NALU_HEADER_SIZE == 2
EVC_MAX_SPS_COUNT == 16
EVC_MAX_PPS_COUNT == 64
EVC_NOIDR_NUT == 0
EVC_IDR_NUT == 1
EVC_SPS_NUT == 24
EVC_PPS_NUT == 25
EVC_APS_NUT == 26
EVC_FD_NUT == 27
EVC_SEI_NUT == 28
EVC_UNSPEC_NUT62 == 62
EVC_SLICE_TYPE_B == 0
EVC_SLICE_TYPE_P == 1
EVC_SLICE_TYPE_I == 2
INIT_AU_BUF_CAPACITY == 1024
FF_PROFILE_EVC_BASELINE == 0
FF_PROFILE_EVC_MAIN == 1
END_NOT_FOUND == -100
\* AVERROR_INVALIDDATA and AVERROR(EAGAIN) are negative error codes; only
\* their sign and their being distinct matter to the code modelled here.
AVERROR_INVALIDDATA == -1094995529
AVERROR_EAGAIN == -11
AVERROR_EINVAL == -22
AVERROR_EOF == -541478725
FF_PROFILE_UNKNOWN == -99

\* ------------------------------------------------------------------------
\* Arithmetic helpers
\* ------------------------------------------------------------------------
RECURSIVE Pow2(_)
Pow2(n) == IF n <= 0 THEN 1 ELSE 2 * Pow2(n - 1)

\* (int)log2(x) for x >= 1
RECURSIVE FloorLog2(_)
FloorLog2(x) == IF x <= 1 THEN 0 ELSE 1 + FloorLog2(x \div 2)

\* C integer conversion of the quotient n/d (d > 0): truncation toward zero
TruncDiv(n, d) == IF n >= 0 THEN n \div d ELSE -((-n) \div d)

Zeros(n) == [i \in 1..n |-> 0]

Min(a, b) == IF a <= b THEN a ELSE b

\* The bytes of the packets in acc, in order
RECURSIVE Concat(_)
Concat(acc) == IF acc = <<>> THEN <<>> ELSE Head(acc) \o Concat(Tail(acc))

\* ------------------------------------------------------------------------
\* Bit reader (get_bits.h / golomb.h)
\* ------------------------------------------------------------------------
\* init_get_bits8: a reader over the bytes bs, positioned at bit 0
init_get_bits8(bs) == [buf |-> bs, index |-> 0]

\* bit i (0 = most significant bit of the first byte); bits past the end of
\* the buffer read as 0
BitAt(bs, i) ==
    IF i \div 8 + 1 > Len(bs) THEN 0
    ELSE (bs[i \div 8 + 1] \div <<128, 64, 32, 16, 8, 4, 2, 1>>[(i % 8) + 1]) % 2

RECURSIVE BitsValue(_, _, _)
BitsValue(bs, i, n) ==
    IF n = 0 THEN 0
    ELSE 2 * BitsValue(bs, i, n - 1) + BitAt(bs, i + n - 1)

\* get_bits(gb, n): the next n bits as an unsigned value, reader advanced
get_bits(gb, n) ==
    [gb |-> [gb EXCEPT !.index = @ + n], v |-> BitsValue(gb.buf, gb.index, n)]

\* number of zero bits in front of the first one bit at or after bit i,
\* 32 when the next 32 bits are all zero
LeadingZeros(bs, i) ==
    CHOOSE k \in 0..32 : /\ \A j \in 0..(k - 1) : BitAt(bs, i + j) = 0
                         /\ k = 32 \/ BitAt(bs, i + k) = 1

\* The suffix bits of the code taken as its value
get_ue_golomb_suffix(gb) ==
    LET i == gb.index
        k == LeadingZeros(gb.buf, i)
    IN  [gb |-> [gb EXCEPT !.index = @ + 2 * k + 1],
         v  |-> BitsValue(gb.buf, i + k + 1, k)]

\* get_ue_golomb: k leading zero bits, a one bit, k suffix bits;
\* value 2^k - 1 + suffix.  A code with no one bit within 32 bits is invalid.
get_ue_golomb(gb) ==
    LET i == gb.index
        k == LeadingZeros(gb.buf, i)
    IN  IF i >= 0 /\ k >= 32
        THEN [gb |-> [gb EXCEPT !.index = @ + 32], v |-> AVERROR_INVALIDDATA]
        ELSE [gb |-> [gb EXCEPT !.index = @ + 2 * k + 1],
              v  |-> Pow2(k) - 1 + BitsValue(gb.buf, i + k + 1, k)]

\* get_se_golomb: the unsigned code u read as the signed value
\* (-1)^(u+1) * ceil(u/2): u odd gives (u+1)/2, u even gives -(u/2)
get_se_golomb(gb) ==
    LET r == get_ue_golomb(gb)
    IN  IF r.v < 0 THEN r
        ELSE [gb |-> r.gb,
              v  |-> IF r.v % 2 = 1 THEN (r.v + 1) \div 2 ELSE -(r.v \div 2)]

\* ------------------------------------------------------------------------
\* NAL unit header and length prefix (evc_parse.c)
\* ------------------------------------------------------------------------
\* nal_unit_type_plus1 as the NAL unit type
ff_evc_get_nalu_type_plus1(bits) ==
    IF Len(bits) >= EVC_NALU_HEADER_SIZE
    THEN IF (bits[1] \div 128) % 2 # 0 THEN -1
         ELSE (bits[1] \div 2) % 64
    ELSE -1

\* ff_evc_get_nalu_type: nal_unit_type_plus1 - 1, or -1 when the forbidden
\* bit is set; a buffer shorter than the header yields 0 - 1
ff_evc_get_nalu_type(bits) ==
    IF Len(bits) >= EVC_NALU_HEADER_SIZE
    THEN IF (bits[1] \div 128) % 2 # 0 THEN -1
         ELSE ((bits[1] \div 2) % 64) - 1
    ELSE -1

\* ff_evc_get_temporal_id: bits 6..8 of the 16-bit header
ff_evc_get_temporal_id(bits) ==
    IF Len(bits) >= EVC_NALU_HEADER_SIZE
    THEN IF (bits[1] \div 128) % 2 # 0 THEN -1
         ELSE ((bits[1] * 256 + bits[2]) \div 64) % 8
    ELSE 0

\* The prefix bytes taken least significant first
ff_evc_read_nal_unit_length_le(bits) ==
    IF Len(bits) >= EVC_NALU_LENGTH_PREFIX_SIZE
    THEN LET b4 == IF bits[4] >= 128 THEN bits[4] - 256 ELSE bits[4]
         IN  ((b4 * 256 + bits[3]) * 256 + bits[2]) * 256 + bits[1]
    ELSE 0

\* ff_evc_read_nal_unit_length: the big-endian value of the 4 prefix bytes,
\* accumulated in an int (32 bits, two's complement: a first byte >= 0x80
\* gives a negative int, the same bit pattern as the uint32_t returned);
\* 0 when fewer than 4 bytes are given
ff_evc_read_nal_unit_length(bits) ==
    IF Len(bits) >= EVC_NALU_LENGTH_PREFIX_SIZE
    THEN LET b1 == IF bits[1] >= 128 THEN bits[1] - 256 ELSE bits[1]
         IN  ((b1 * 256 + bits[2]) * 256 + bits[3]) * 256 + bits[4]
    ELSE 0

\* ------------------------------------------------------------------------
\* Parameter sets and slice header (evc_parse.c)
\* ------------------------------------------------------------------------
\* A parse in progress: the reader and the record being filled in.
\* u(st, f, n): rec.f = get_bits(n);  ue(st, f): rec.f = get_ue_golomb();
\* skip_u / skip_ue read a syntax element whose value no modelled code uses.
u(st, f, n) ==
    LET r == get_bits(st.gb, n)
    IN  [rec |-> [st.rec EXCEPT ![f] = r.v], gb |-> r.gb]

ue(st, f) ==
    LET r == get_ue_golomb(st.gb)
    IN  [rec |-> [st.rec EXCEPT ![f] = r.v], gb |-> r.gb]

skip_u(st, n) == [st EXCEPT !.gb.index = @ + n]

skip_ue(st) == [st EXCEPT !.gb = get_ue_golomb(st.gb).gb]

RECURSIVE skip_ue_n(_, _)
skip_ue_n(st, n) == IF n <= 0 THEN st ELSE skip_ue_n(skip_ue(st), n - 1)

\* The fields of EVCParserSPS that some modelled code reads, all zero
ZeroSps ==
    [sps_seq_parameter_set_id |-> 0, profile_idc |-> 0, level_idc |-> 0,
     chroma_format_idc |-> 0,
     pic_width_in_luma_samples |-> 0, pic_height_in_luma_samples |-> 0,
     sps_btt_flag |-> 0, sps_suco_flag |-> 0, sps_admvp_flag |-> 0,
     sps_mmvd_flag |-> 0, sps_eipd_flag |-> 0, sps_ibc_flag |-> 0,
     sps_cm_init_flag |-> 0, sps_iqt_flag |-> 0,
     sps_alf_flag |-> 0, sps_rpl_flag |-> 0, sps_pocs_flag |-> 0,
     log2_max_pic_order_cnt_lsb_minus4 |-> 0, log2_sub_gop_length |-> 0,
     log2_ref_pic_gap_length |-> 0, max_num_tid0_ref_pics |-> 0,
     sps_max_dec_pic_buffering_minus1 |-> 0, rpl1_same_as_rpl0_flag |-> 0,
     num_ref_pic_list_in_sps0 |-> 0, num_ref_pic_list_in_sps1 |-> 0,
     picture_cropping_flag |-> 0,
     picture_crop_left_offset |-> 0, picture_crop_right_offset |-> 0,
     picture_crop_top_offset |-> 0, picture_crop_bottom_offset |-> 0]

\* ref_pic_list_struct: ref_pic_num, then per entry a delta and, when the
\* delta is not 0, a sign bit.  Only the reader position is kept.
RECURSIVE rpl_entries(_, _)
rpl_entries(gb, n) ==
    IF n <= 0 THEN gb
    ELSE LET d == get_ue_golomb(gb)
         IN  rpl_entries(IF d.v # 0 THEN get_bits(d.gb, 1).gb ELSE d.gb, n - 1)

ref_pic_list_struct(gb) ==
    LET num == get_ue_golomb(gb)
    IN  rpl_entries(num.gb, num.v)

RECURSIVE rpl_lists(_, _)
rpl_lists(st, n) ==
    IF n <= 0 THEN st
    ELSE rpl_lists([st EXCEPT !.gb = ref_pic_list_struct(st.gb)], n - 1)

\* if (flag f was read as 1) skip n Exp-Golomb elements
skip_ue_if(st, f, n) == IF st.rec[f] # 0 THEN skip_ue_n(st, n) ELSE st

\* if (flag f was read as 1) skip n bits
skip_u_if(st, f, n) == IF st.rec[f] # 0 THEN skip_u(st, n) ELSE st

\* the number of lists read into field f, then that many ref_pic_list_structs
rpl_lists_of(st, f) == rpl_lists(st, st.rec[f])

\* ff_evc_parse_sps, lines 224..324: the k-th group of syntax elements after
\* the id, applied to the reader and the record being filled in.  A field
\* the payload does not carry keeps the value the record held before.
sps_syntax(k, st) ==
    CASE k = 1  -> skip_u(skip_u(u(u(st, "profile_idc", 8), "level_idc", 8), 32), 32)
      [] k = 2  -> skip_ue_n(ue(ue(ue(st, "chroma_format_idc"),
                                   "pic_width_in_luma_samples"),
                                "pic_height_in_luma_samples"), 2)
      [] k = 3  -> skip_ue_if(u(st, "sps_btt_flag", 1), "sps_btt_flag", 5)
      [] k = 4  -> skip_ue_if(u(st, "sps_suco_flag", 1), "sps_suco_flag", 2)
      [] k = 5  -> u(st, "sps_admvp_flag", 1)
      [] k = 6  -> IF st.rec.sps_admvp_flag # 0
                   THEN skip_u(u(skip_u(st, 3), "sps_mmvd_flag", 1), 1)
                   ELSE st
      [] k = 7  -> u(st, "sps_eipd_flag", 1)
      [] k = 8  -> IF st.rec.sps_eipd_flag # 0
                   THEN skip_ue_if(u(st, "sps_ibc_flag", 1), "sps_ibc_flag", 1)
                   ELSE st
      [] k = 9  -> skip_u_if(u(st, "sps_cm_init_flag", 1), "sps_cm_init_flag", 1)
      [] k = 10 -> skip_u_if(u(st, "sps_iqt_flag", 1), "sps_iqt_flag", 1)
      [] k = 11 -> skip_u(u(u(skip_u(u(skip_u(st, 1), "sps_alf_flag", 1), 1),
                              "sps_rpl_flag", 1),
                            "sps_pocs_flag", 1), 2)
      [] k = 12 -> IF st.rec.sps_pocs_flag # 0
                   THEN ue(st, "log2_max_pic_order_cnt_lsb_minus4")
                   ELSE st
      [] k = 13 -> IF st.rec.sps_pocs_flag = 0 \/ st.rec.sps_rpl_flag = 0
                   THEN ue(st, "log2_sub_gop_length")
                   ELSE st
      [] k = 14 -> IF (st.rec.sps_pocs_flag = 0 \/ st.rec.sps_rpl_flag = 0)
                      /\ st.rec.log2_sub_gop_length = 0
                   THEN ue(st, "log2_ref_pic_gap_length")
                   ELSE st
      [] k = 15 -> IF st.rec.sps_rpl_flag = 0
                   THEN ue(st, "max_num_tid0_ref_pics")
                   ELSE rpl_lists_of(
                            ue(u(skip_u(ue(st, "sps_max_dec_pic_buffering_minus1"), 1),
                                 "rpl1_same_as_rpl0_flag", 1),
                               "num_ref_pic_list_in_sps0"),
                            "num_ref_pic_list_in_sps0")
      [] k = 16 -> IF st.rec.sps_rpl_flag # 0 /\ st.rec.rpl1_same_as_rpl0_flag = 0
                   THEN rpl_lists_of(ue(st, "num_ref_pic_list_in_sps1"),
                                     "num_ref_pic_list_in_sps1")
                   ELSE st
      [] k = 17 -> u(st, "picture_cropping_flag", 1)
      [] k = 18 -> IF st.rec.picture_cropping_flag # 0
                   THEN ue(ue(ue(ue(st, "picture_crop_left_offset"),
                                    "picture_crop_right_offset"),
                                "picture_crop_top_offset"),
                            "picture_crop_bottom_offset")
                   ELSE st

\* Groups k, k + 1, ... 18 in order, each from the state its predecessor
\* left (the reader only moves forward)
RECURSIVE sps_from(_, _)
sps_from(k, st) ==
    IF k > 18 \/ st.gb.index < 0 THEN st.rec
    ELSE sps_from(k + 1, sps_syntax(k, st))

sps_body(gb, sps) == sps_from(1, [gb |-> gb, rec |-> sps])

\* The parameter-set store of EVCParserContext (evc_parse.h): sps, pps and
\* slice_header are tables of pointers, modelled as functions from the ids
\* whose slot is allocated to the record stored there.
\* An index outside a table is undefined behaviour: the parse then reports
\* oob and the operation that ran it is taken to have any outcome.
ParseFail(ev) == [ok |-> FALSE, oob |-> FALSE, ev |-> ev]
ParseOob(ev) == [ok |-> FALSE, oob |-> TRUE, ev |-> ev]

\* ff_evc_parse_sps.  junk is the content of freshly allocated (av_malloc,
\* not zeroed) memory, used when the slot is allocated by this call.
ff_evc_parse_sps(bs, ev, junk) ==
    LET id == get_ue_golomb(init_get_bits8(bs))
    IN  IF id.v >= EVC_MAX_SPS_COUNT THEN ParseFail(ev)
        ELSE IF id.v < 0 THEN ParseOob(ev)
        ELSE LET old == IF id.v \in DOMAIN ev.sps THEN ev.sps[id.v] ELSE junk.sps
                 new == sps_body(id.gb, [old EXCEPT !.sps_seq_parameter_set_id = id.v])
             IN  [ok |-> TRUE, oob |-> FALSE, id |-> id.v,
                  ev |-> [ev EXCEPT !.sps =
                             [i \in DOMAIN ev.sps \cup {id.v} |->
                                 IF i = id.v THEN new ELSE ev.sps[i]]]]

ZeroPps ==
    [pps_pic_parameter_set_id |-> 0, pps_seq_parameter_set_id |-> 0,
     single_tile_in_pic_flag |-> 0,
     num_tile_columns_minus1 |-> 0, num_tile_rows_minus1 |-> 0,
     uniform_tile_spacing_flag |-> 0, tile_id_len_minus1 |-> 0,
     explicit_tile_id_flag |-> 0, pic_dra_enabled_flag |-> 0,
     arbitrary_slice_present_flag |-> 0, cu_qp_delta_enabled_flag |-> 0]

\* ff_evc_parse_pps, lines 387..430: the k-th group of syntax elements
\* after the two ids
pps_syntax(k, st) ==
    CASE k = 1 -> u(skip_u(skip_ue_n(st, 3), 1), "single_tile_in_pic_flag", 1)
      [] k = 2 -> IF st.rec.single_tile_in_pic_flag = 0
                  THEN u(ue(ue(st, "num_tile_columns_minus1"),
                            "num_tile_rows_minus1"),
                         "uniform_tile_spacing_flag", 1)
                  ELSE st
      [] k = 3 -> IF st.rec.single_tile_in_pic_flag = 0
                     /\ st.rec.uniform_tile_spacing_flag = 0
                  THEN skip_ue_n(skip_ue_n(st, st.rec.num_tile_columns_minus1),
                                 st.rec.num_tile_rows_minus1)
                  ELSE st
      [] k = 4 -> IF st.rec.single_tile_in_pic_flag = 0
                  THEN skip_ue(skip_u(st, 1))
                  ELSE st
      [] k = 5 -> u(ue(st, "tile_id_len_minus1"), "explicit_tile_id_flag", 1)
      [] k = 6 -> IF st.rec.explicit_tile_id_flag # 0
                     /\ st.rec.num_tile_rows_minus1 >= 0
                     /\ st.rec.num_tile_columns_minus1 >= 0
                  THEN skip_u(st, (st.rec.num_tile_rows_minus1 + 1)
                                  * (st.rec.num_tile_columns_minus1 + 1)
                                  * (st.rec.tile_id_len_minus1 + 1))
                  ELSE st
      [] k = 7 -> skip_u_if(u(st, "pic_dra_enabled_flag", 1), "pic_dra_enabled_flag", 5)
      [] k = 8 -> skip_ue_if(u(skip_u(u(st, "arbitrary_slice_present_flag", 1), 1),
                               "cu_qp_delta_enabled_flag", 1),
                             "cu_qp_delta_enabled_flag", 1)

\* Groups k, k + 1, ... 8 in order
RECURSIVE pps_from(_, _)
pps_from(k, st) ==
    IF k > 8 \/ st.gb.index < 0 THEN st.rec
    ELSE pps_from(k + 1, pps_syntax(k, st))

pps_body(gb, pps) == pps_from(1, [gb |-> gb, rec |-> pps])

\* ff_evc_parse_pps
ff_evc_parse_pps(bs, ev, junk) ==
    LET id == get_ue_golomb(init_get_bits8(bs))
    IN  IF id.v > EVC_MAX_PPS_COUNT THEN ParseFail(ev)
        ELSE IF id.v < 0 \/ id.v >= EVC_MAX_PPS_COUNT THEN ParseOob(ev)
        ELSE LET old  == IF id.v \in DOMAIN ev.pps THEN ev.pps[id.v] ELSE junk.pps
                 sid  == get_ue_golomb(id.gb)
                 head == [old EXCEPT !.pps_pic_parameter_set_id = id.v,
                                     !.pps_seq_parameter_set_id = sid.v]
                 put(rec) == [ev EXCEPT !.pps =
                                 [i \in DOMAIN ev.pps \cup {id.v} |->
                                     IF i = id.v THEN rec ELSE ev.pps[i]]]
             IN  IF sid.v >= EVC_MAX_SPS_COUNT
                 THEN ParseFail(put(head))
                 ELSE [ok |-> TRUE, oob |-> FALSE, id |-> id.v,
                       ev |-> put(pps_body(sid.gb, head))]

ZeroSliceHeader ==
    [slice_pic_parameter_set_id |-> 0, single_tile_in_slice_flag |-> 0,
     arbitrary_slice_flag |-> 0, slice_type |-> 0,
     slice_alf_enabled_flag |-> 0, slice_alf_chroma_idc |-> 0,
     slice_pic_order_cnt_lsb |-> 0]

\* Lines 513..541: the ALF syntax of a slice when ChromaArrayType is 3; idc
\* is slice_alf_chroma_idc as it was before this block
slice_alf_chroma3(st, idc) ==
    LET d == IF st.rec.slice_alf_enabled_flag = 0
             THEN u(st, "slice_alf_chroma_idc", 2)
             ELSE st
        e == IF idc \in {1, 3} THEN skip_u(d, 6) ELSE d
    IN  IF idc \in {2, 3} THEN skip_u(e, 6) ELSE e

\* ff_evc_parse_slice_header, lines 469..550: statement k of the syntax
\* elements after the pps id, read against pps, sps and the NAL unit type
slice_syntax(k, st, pps, sps, nalu_type) ==
    CASE k = 1 -> IF pps.single_tile_in_pic_flag = 0
                  THEN skip_u(u(st, "single_tile_in_slice_flag", 1),
                              pps.tile_id_len_minus1 + 1)
                  ELSE [st EXCEPT !.rec.single_tile_in_slice_flag = 1]
      [] k = 2 -> IF st.rec.single_tile_in_slice_flag = 0
                     /\ pps.arbitrary_slice_present_flag # 0
                  THEN u(st, "arbitrary_slice_flag", 1)
                  ELSE st
      [] k = 3 -> IF st.rec.single_tile_in_slice_flag # 0 THEN st
                  ELSE IF st.rec.arbitrary_slice_flag = 0
                  THEN skip_u(st, pps.tile_id_len_minus1 + 1)
                  ELSE skip_ue_n(skip_ue(st), get_ue_golomb(st.gb).v + 1)
      [] k = 4 -> ue(st, "slice_type")
      [] k = 5 -> IF nalu_type = EVC_IDR_NUT THEN skip_u(st, 1) ELSE st
      [] k = 6 -> IF sps.sps_mmvd_flag # 0
                     /\ st.rec.slice_type \in {EVC_SLICE_TYPE_B, EVC_SLICE_TYPE_P}
                  THEN skip_u(st, 1)
                  ELSE st
      [] k = 7 -> IF sps.sps_alf_flag # 0
                  THEN u(st, "slice_alf_enabled_flag", 1)
                  ELSE st
      [] k = 8 -> IF sps.sps_alf_flag # 0 /\ st.rec.slice_alf_enabled_flag # 0
                  THEN u(skip_u(st, 6), "slice_alf_chroma_idc", 2)
                  ELSE st
      [] k = 9 -> IF sps.sps_alf_flag # 0 /\ st.rec.slice_alf_enabled_flag # 0
                     /\ sps.chroma_format_idc \in {1, 2}
                     /\ st.rec.slice_alf_chroma_idc > 0
                  THEN skip_u(st, 5)
                  ELSE st
      [] k = 10 -> IF sps.sps_alf_flag # 0 /\ sps.chroma_format_idc = 3
                   THEN slice_alf_chroma3(st, st.rec.slice_alf_chroma_idc)
                   ELSE st
      [] k = 11 -> IF nalu_type # EVC_IDR_NUT /\ sps.sps_pocs_flag # 0
                   THEN u(st, "slice_pic_order_cnt_lsb",
                          sps.log2_max_pic_order_cnt_lsb_minus4 + 4)
                   ELSE st

\* Statements k, k + 1, ... 11 in order
RECURSIVE slice_from(_, _, _, _, _)
slice_from(k, st, pps, sps, nalu_type) ==
    IF k > 11 \/ st.gb.index < 0 THEN st.rec
    ELSE slice_from(k + 1, slice_syntax(k, st, pps, sps, nalu_type),
                    pps, sps, nalu_type)

slice_header_body(gb, sh, pps, sps, nalu_type) ==
    slice_from(1, [gb |-> gb, rec |-> sh], pps, sps, nalu_type)

\* ff_evc_parse_slice_header.  The slice-header slot, the PPS and the SPS
\* are all looked up under the slice's pps id.
ff_evc_parse_slice_header(bs, ev, junk) ==
    LET id == get_ue_golomb(init_get_bits8(bs))
    IN  IF id.v < 0 \/ id.v >= EVC_MAX_PPS_COUNT THEN ParseFail(ev)
        ELSE LET old  == IF id.v \in DOMAIN ev.slice_header
                         THEN ev.slice_header[id.v] ELSE junk.sh
                 put(rec) == [ev EXCEPT !.slice_header =
                                 [i \in DOMAIN ev.slice_header \cup {id.v} |->
                                     IF i = id.v THEN rec ELSE ev.slice_header[i]]]
             IN  IF id.v \notin DOMAIN ev.pps THEN ParseFail(put(old))
                 ELSE IF id.v >= EVC_MAX_SPS_COUNT THEN ParseOob(put(old))
                 ELSE IF id.v \notin DOMAIN ev.sps THEN ParseFail(put(old))
                 ELSE [ok |-> TRUE, oob |-> FALSE, id |-> id.v,
                       ev |-> put(slice_header_body(id.gb,
                                     [old EXCEPT !.slice_pic_parameter_set_id = id.v],
                                     ev.pps[id.v], ev.sps[id.v], ev.nalu_type))]

\* ------------------------------------------------------------------------
\* POC derivation and AU boundary (evc_frame_merge_bsf.c)
\* ------------------------------------------------------------------------
ExpectedTemporalId_flat(DocOffset) ==
    IF DocOffset = 0 THEN 0 ELSE 1

ExpectedTemporalId(DocOffset) ==
    IF DocOffset = 0 THEN 0 ELSE 1 + FloorLog2(DocOffset)

\* The loop of lines 200..206: DocOffset advances (mod SubGopLength) until
\* its expected temporal id is tid.  After SubGopLength advances every
\* offset has been tried: the loop then never ends (found = FALSE).
RECURSIVE doc_offset_loop(_, _, _, _)
doc_offset_loop(DocOffset, tid, SubGopLength, left) ==
    IF tid = ExpectedTemporalId(DocOffset) THEN [found |-> TRUE, DocOffset |-> DocOffset]
    ELSE IF left = 0 THEN [found |-> FALSE, DocOffset |-> DocOffset]
    ELSE doc_offset_loop((DocOffset + 1) % SubGopLength, tid, SubGopLength, left - 1)

PicOrderCntMsb_strict(PicOrderCntVal, lsb, MaxPicOrderCntLsb) ==
    LET prevPicOrderCntLsb == PicOrderCntVal % MaxPicOrderCntLsb
        prevPicOrderCntMsb == PicOrderCntVal - prevPicOrderCntLsb
    IN  IF lsb < prevPicOrderCntLsb
           /\ prevPicOrderCntLsb - lsb > MaxPicOrderCntLsb \div 2
        THEN prevPicOrderCntMsb + MaxPicOrderCntLsb
        ELSE IF lsb > prevPicOrderCntLsb
                /\ lsb - prevPicOrderCntLsb > MaxPicOrderCntLsb \div 2
        THEN prevPicOrderCntMsb - MaxPicOrderCntLsb
        ELSE prevPicOrderCntMsb

\* Lines 164..175: the MSB of the POC of a non-IDR slice, explicit branch
PicOrderCntMsb(PicOrderCntVal, lsb, MaxPicOrderCntLsb) ==
    LET prevPicOrderCntLsb == PicOrderCntVal % MaxPicOrderCntLsb
        prevPicOrderCntMsb == PicOrderCntVal - prevPicOrderCntLsb
    IN  IF lsb < prevPicOrderCntLsb
           /\ prevPicOrderCntLsb - lsb >= MaxPicOrderCntLsb \div 2
        THEN prevPicOrderCntMsb + MaxPicOrderCntLsb
        ELSE IF lsb > prevPicOrderCntLsb
                /\ lsb - prevPicOrderCntLsb > MaxPicOrderCntLsb \div 2
        THEN prevPicOrderCntMsb - MaxPicOrderCntLsb
        ELSE prevPicOrderCntMsb

\* The POC taken from slice_pic_order_cnt_lsb whatever the SPS says
poc_derivation_from_lsb(poc, sps, sh, nalu_type, tid) ==
    [hang |-> FALSE,
     poc  |-> [poc EXCEPT !.prevPicOrderCntVal = poc.PicOrderCntVal,
                          !.PicOrderCntVal = sh.slice_pic_order_cnt_lsb]]

\* Lines 150..211 of parse_nal_unit: the POC state after a slice NAL unit
\* of type nalu_type and temporal id tid, given the SPS and the slice
\* header the code looked up.  hang: the loop of lines 200..206 never ends.
poc_derivation(poc, sps, sh, nalu_type, tid) ==
    IF sps.sps_pocs_flag # 0
    THEN LET msb == IF nalu_type = EVC_IDR_NUT THEN 0
                    ELSE PicOrderCntMsb(poc.PicOrderCntVal, sh.slice_pic_order_cnt_lsb,
                                        Pow2(sps.log2_max_pic_order_cnt_lsb_minus4 + 4))
         IN  [hang |-> FALSE,
              poc  |-> [poc EXCEPT !.prevPicOrderCntVal = poc.PicOrderCntVal,
                                   !.PicOrderCntVal = msb + sh.slice_pic_order_cnt_lsb]]
    ELSE IF nalu_type = EVC_IDR_NUT
    THEN [hang |-> FALSE, poc |-> [poc EXCEPT !.PicOrderCntVal = 0, !.DocOffset = -1]]
    ELSE LET SubGopLength == Pow2(sps.log2_sub_gop_length)
         IN  IF tid = 0
             THEN [hang |-> FALSE,
                   poc  |-> [PicOrderCntVal     |-> poc.prevPicOrderCntVal + SubGopLength,
                             DocOffset          |-> 0,
                             prevPicOrderCntVal |-> poc.prevPicOrderCntVal + SubGopLength]]
             ELSE LET first == (poc.DocOffset + 1) % SubGopLength
                      prev  == IF first = 0
                               THEN poc.prevPicOrderCntVal + SubGopLength
                               ELSE poc.prevPicOrderCntVal
                      loop  == doc_offset_loop(first, tid, SubGopLength, SubGopLength)
                      PocOffset == TruncDiv(SubGopLength * (2 * loop.DocOffset + 1)
                                              - 2 * SubGopLength * Pow2(tid),
                                            Pow2(tid))
                  IN  IF loop.found
                      THEN [hang |-> FALSE,
                            poc  |-> [PicOrderCntVal     |-> prev + PocOffset,
                                      DocOffset          |-> loop.DocOffset,
                                      prevPicOrderCntVal |-> prev]]
                      ELSE [hang |-> TRUE,
                            poc  |-> [poc EXCEPT !.prevPicOrderCntVal = prev,
                                                 !.DocOffset = loop.DocOffset]]

end_of_access_unit_found_any_slice(profile, nalu_type, poc) ==
    nalu_type = EVC_NOIDR_NUT \/ nalu_type = EVC_IDR_NUT

\* end_of_access_unit_found
end_of_access_unit_found(profile, nalu_type, poc) ==
    IF profile = 0
    THEN nalu_type = EVC_NOIDR_NUT \/ nalu_type = EVC_IDR_NUT
    ELSE IF nalu_type = EVC_NOIDR_NUT
         THEN poc.PicOrderCntVal # poc.prevPicOrderCntVal
         ELSE nalu_type = EVC_IDR_NUT

\* The context of the bitstream filter after evc_frame_merge_init
\* (priv_data is zero-initialised)
ZeroPoc == [PicOrderCntVal |-> 0, prevPicOrderCntVal |-> 0, DocOffset |-> 0]

InitParserContext ==
    [sps |-> <<>>, pps |-> <<>>, slice_header |-> <<>>,
     nalu_type |-> 0, poc |-> ZeroPoc]

\* The result of a parse_nal_unit call: ret its return value, ctx the
\* context it leaves, oob / hang the undefined or non-terminating cases
NalResult(ret, ctx) == [ret |-> ret, ctx |-> ctx, oob |-> FALSE, hang |-> FALSE]

\* parse_nal_unit, lines 102..117: the SPS case, r the result of
\* ff_evc_parse_sps
nal_sps(c1, r) ==
    IF ~r.ok
    THEN [NalResult(AVERROR_INVALIDDATA, [c1 EXCEPT !.pc = r.ev]) EXCEPT !.oob = r.oob]
    ELSE NalResult(0, [c1 EXCEPT !.pc = r.ev,
                         !.profile = IF r.ev.sps[r.id].profile_idc = 1
                                     THEN FF_PROFILE_EVC_MAIN
                                     ELSE FF_PROFILE_EVC_BASELINE])

\* A PPS that starts the POC derivation afresh
nal_pps_reset_poc(c1, r) ==
    IF ~r.ok
    THEN [NalResult(AVERROR_INVALIDDATA, [c1 EXCEPT !.pc = r.ev]) EXCEPT !.oob = r.oob]
    ELSE NalResult(0, [c1 EXCEPT !.pc = [r.ev EXCEPT !.poc = ZeroPoc]])

\* parse_nal_unit, lines 118..128: the PPS case, r the result of
\* ff_evc_parse_pps
nal_pps(c1, r) ==
    IF ~r.ok
    THEN [NalResult(AVERROR_INVALIDDATA, [c1 EXCEPT !.pc = r.ev]) EXCEPT !.oob = r.oob]
    ELSE NalResult(0, [c1 EXCEPT !.pc = r.ev])

\* parse_nal_unit, lines 131..213: the slice case, r the result of
\* ff_evc_parse_slice_header
nal_slice(c1, r, nalu_type, tid) ==
    IF ~r.ok
    THEN [NalResult(AVERROR_INVALIDDATA, [c1 EXCEPT !.pc = r.ev]) EXCEPT !.oob = r.oob]
    ELSE LET sh  == r.ev.slice_header[r.id]
             sps == r.ev.sps[sh.slice_pic_parameter_set_id]
             d   == poc_derivation(r.ev.poc, sps, sh, nalu_type, tid)
         IN  [NalResult(0, [c1 EXCEPT !.pc = [r.ev EXCEPT !.poc = d.poc],
                                      !.key_frame = IF nalu_type = EVC_IDR_NUT
                                                    THEN 1 ELSE 0])
                 EXCEPT !.hang = d.hang]

\* parse_nal_unit of evc_frame_merge_bsf.c.  buf is the NAL unit (header and
\* payload) of the input packet; the bit readers are given the payload,
\* behind which the packet's zero padding follows.
bsf_parse_nal_unit(buf, ctx, junk) ==
    LET nalu_type == ff_evc_get_nalu_type(buf)
        tid  == ff_evc_get_temporal_id(buf)
        c1   == [ctx EXCEPT !.pc.nalu_type = nalu_type]
        data == SubSeq(buf, EVC_NALU_HEADER_SIZE + 1, Len(buf))
    IN  IF Len(buf) <= 0 THEN NalResult(AVERROR_INVALIDDATA, ctx)
        ELSE IF nalu_type < EVC_NOIDR_NUT \/ nalu_type > EVC_UNSPEC_NUT62
        THEN NalResult(AVERROR_INVALIDDATA, ctx)
        ELSE IF tid < 0 THEN NalResult(AVERROR_INVALIDDATA, c1)
        ELSE IF nalu_type = EVC_SPS_NUT
        THEN nal_sps(c1, ff_evc_parse_sps(data, c1.pc, junk))
        ELSE IF nalu_type = EVC_PPS_NUT
        THEN nal_pps(c1, ff_evc_parse_pps(data, c1.pc, junk))
        ELSE IF nalu_type \in {EVC_IDR_NUT, EVC_NOIDR_NUT}
        THEN nal_slice(c1, ff_evc_parse_slice_header(data, c1.pc, junk), nalu_type, tid)
        ELSE NalResult(0, c1)

\* ------------------------------------------------------------------------
\* The evc_frame_merge bitstream filter (evc_frame_merge_bsf.c)
\* ------------------------------------------------------------------------
\* Lines 262..270: the capacity after the doubling loop
RECURSIVE grow_capacity(_, _, _)
grow_capacity(capacity, data_size, in_size) ==
    IF capacity - data_size < in_size
    THEN grow_capacity(capacity * 2, data_size, in_size)
    ELSE capacity

au_memcpy_fresh(data, data_size, in) == Zeros(data_size) \o in

\* Line 272: memcpy(data + data_size, in->data, in->size).  data holds the
\* first data_size bytes of the buffer; the bytes behind them are never read.
au_memcpy(data, data_size, in) == SubSeq(data, 1, data_size) \o in

\* The first 4 bytes at in->data: the packet's bytes, then its zero padding
PaddedPrefix(in) ==
    [i \in 1..EVC_NALU_LENGTH_PREFIX_SIZE |-> IF i <= Len(in) THEN in[i] ELSE 0]

\* evc_frame_merge_init
InitMergeContext ==
    [pc |-> InitParserContext, profile |-> 0, key_frame |-> 0,
     au_buffer |-> [data |-> <<>>, data_size |-> 0,
                    capacity |-> INIT_AU_BUF_CAPACITY]]

\* The AU is output and its bytes are left in the buffer
filter_append_no_reset(in, p) ==
    LET au   == p.ctx.au_buffer
        cap  == grow_capacity(au.capacity, au.data_size, Len(in))
        data == au_memcpy(au.data, au.data_size, in)
        size == au.data_size + Len(in)
    IN  IF p.ret < 0 \/ p.hang
        THEN [ret |-> p.ret, out |-> <<>>, ctx |-> p.ctx, oob |-> p.oob, hang |-> p.hang]
        ELSE [ret |-> IF end_of_access_unit_found(p.ctx.profile, p.ctx.pc.nalu_type,
                                                  p.ctx.pc.poc)
                      THEN 0 ELSE AVERROR_EAGAIN,
              out |-> IF end_of_access_unit_found(p.ctx.profile, p.ctx.pc.nalu_type,
                                                  p.ctx.pc.poc)
                      THEN SubSeq(data, 1, size) ELSE <<>>,
              ctx |-> [p.ctx EXCEPT !.au_buffer =
                          [data |-> data, data_size |-> size, capacity |-> cap]],
              oob |-> FALSE, hang |-> FALSE]

filter_append_last_only(in, p) ==
    LET au  == p.ctx.au_buffer
        cap == grow_capacity(au.capacity, au.data_size, Len(in))
    IN  IF p.ret < 0 \/ p.hang
        THEN [ret |-> p.ret, out |-> <<>>, ctx |-> p.ctx, oob |-> p.oob, hang |-> p.hang]
        ELSE IF end_of_access_unit_found(p.ctx.profile, p.ctx.pc.nalu_type, p.ctx.pc.poc)
        THEN [ret |-> 0, out |-> in,
              ctx |-> [p.ctx EXCEPT !.au_buffer =
                          [data |-> <<>>, data_size |-> 0, capacity |-> cap]],
              oob |-> FALSE, hang |-> FALSE]
        ELSE [ret |-> AVERROR_EAGAIN, out |-> <<>>,
              ctx |-> [p.ctx EXCEPT !.au_buffer =
                          [data |-> au_memcpy(au.data, au.data_size, in),
                           data_size |-> au.data_size + Len(in), capacity |-> cap]],
              oob |-> FALSE, hang |-> FALSE]

\* evc_frame_merge_filter, lines 251..289: after parse_nal_unit returned p
filter_append(in, p) ==
    LET au   == p.ctx.au_buffer
        cap  == grow_capacity(au.capacity, au.data_size, Len(in))
        data == au_memcpy(au.data, au.data_size, in)
        size == au.data_size + Len(in)
    IN  IF p.ret < 0 \/ p.hang
        THEN [ret |-> p.ret, out |-> <<>>, ctx |-> p.ctx, oob |-> p.oob, hang |-> p.hang]
        ELSE IF end_of_access_unit_found(p.ctx.profile, p.ctx.pc.nalu_type, p.ctx.pc.poc)
        THEN [ret |-> 0, out |-> SubSeq(data, 1, size),
              ctx |-> [p.ctx EXCEPT !.au_buffer =
                          [data |-> <<>>, data_size |-> 0, capacity |-> cap]],
              oob |-> FALSE, hang |-> FALSE]
        ELSE [ret |-> AVERROR_EAGAIN, out |-> <<>>,
              ctx |-> [p.ctx EXCEPT !.au_buffer =
                          [data |-> data, data_size |-> size, capacity |-> cap]],
              oob |-> FALSE, hang |-> FALSE]

\* evc_frame_merge_filter on the input packet in: the value it returns, the
\* packet it outputs (<<>> when none) and the context it leaves.
evc_frame_merge_filter(ctx, in, junk) ==
    IF ff_evc_read_nal_unit_length(PaddedPrefix(in)) = 0
    THEN [ret |-> AVERROR_INVALIDDATA, out |-> <<>>, ctx |-> ctx,
          oob |-> FALSE, hang |-> FALSE]
    ELSE filter_append(in, bsf_parse_nal_unit(
                               SubSeq(in, EVC_NALU_LENGTH_PREFIX_SIZE + 1, Len(in)),
                               ctx, junk))

\* evc_frame_merge_flush: av_packet_unref(ctx->in).  The input packet is
\* already released when evc_frame_merge_filter returns; no other field of
\* the context is assigned.
evc_frame_merge_flush(ctx) == ctx

\* ------------------------------------------------------------------------
\* The parser (evc_parser.c)
\* ------------------------------------------------------------------------
\* The static copies of the header and length readers
get_nalu_type(bits) == ff_evc_get_nalu_type(bits)

get_temporal_id(bits) == ff_evc_get_temporal_id(bits)

read_nal_unit_length(bits) == ff_evc_read_nal_unit_length(bits)

\* EVCParserContext holds its parameter sets and slice headers in arrays that
\* are part of the zero-initialised context: a slot never written reads as
\* zeros.  The tables are modelled as functions from the ids written so far.
Slot(store, id, zero) == IF id \in DOMAIN store THEN store[id] ELSE zero

PutSlot(store, id, rec) ==
    [i \in DOMAIN store \cup {id} |-> IF i = id THEN rec ELSE store[i]]

\* parse_sps of evc_parser.c
parser_parse_sps(bs, ev) ==
    LET id == get_ue_golomb(init_get_bits8(bs))
    IN  IF id.v >= EVC_MAX_SPS_COUNT THEN ParseFail(ev)
        ELSE IF id.v < 0 THEN ParseOob(ev)
        ELSE [ok |-> TRUE, oob |-> FALSE, id |-> id.v,
              ev |-> [ev EXCEPT !.sps = PutSlot(ev.sps, id.v,
                         sps_body(id.gb, [Slot(ev.sps, id.v, ZeroSps)
                                             EXCEPT !.sps_seq_parameter_set_id = id.v]))]]

\* parse_pps of evc_parser.c, from the pps id on: sid is the sps id read
parser_pps_rest(ev, id, sid) ==
    IF sid.v >= EVC_MAX_SPS_COUNT
    THEN ParseFail([ev EXCEPT !.pps = PutSlot(ev.pps, id,
                       [Slot(ev.pps, id, ZeroPps)
                           EXCEPT !.pps_pic_parameter_set_id = id,
                                  !.pps_seq_parameter_set_id = sid.v])])
    ELSE [ok |-> TRUE, oob |-> FALSE, id |-> id,
          ev |-> [ev EXCEPT !.pps = PutSlot(ev.pps, id,
                     pps_body(sid.gb, [Slot(ev.pps, id, ZeroPps)
                                          EXCEPT !.pps_pic_parameter_set_id = id,
                                                 !.pps_seq_parameter_set_id = sid.v]))]]

\* parse_pps of evc_parser.c.  Id EVC_MAX_PPS_COUNT passes the check and
\* indexes behind the array.
parser_parse_pps(bs, ev) ==
    LET id == get_ue_golomb(init_get_bits8(bs))
    IN  IF id.v > EVC_MAX_PPS_COUNT THEN ParseFail(ev)
        ELSE IF id.v < 0 \/ id.v >= EVC_MAX_PPS_COUNT THEN ParseOob(ev)
        ELSE parser_pps_rest(ev, id.v, get_ue_golomb(id.gb))

\* parse_slice_header of evc_parser.c.  The slice-header slot, the PPS and
\* the SPS are all taken at the slice's pps id; the SPS array has only
\* EVC_MAX_SPS_COUNT entries.
parser_parse_slice_header(bs, ev) ==
    LET id == get_ue_golomb(init_get_bits8(bs))
    IN  IF id.v < 0 \/ id.v >= EVC_MAX_PPS_COUNT THEN ParseFail(ev)
        ELSE IF id.v >= EVC_MAX_SPS_COUNT THEN ParseOob(ev)
        ELSE [ok |-> TRUE, oob |-> FALSE, id |-> id.v,
              ev |-> [ev EXCEPT !.slice_header = PutSlot(ev.slice_header, id.v,
                         slice_header_body(id.gb,
                             [Slot(ev.slice_header, id.v, ZeroSliceHeader)
                                 EXCEPT !.slice_pic_parameter_set_id = id.v],
                             Slot(ev.pps, id.v, ZeroPps),
                             Slot(ev.sps, id.v, ZeroSps),
                             ev.nalu_type))]]

\* parse_nal_unit, lines 838..883: the SPS case, r the result of parse_sps.
\* Any chroma format but 4:2:0 is refused with -1 after the SPS is stored.
parser_nal_sps(c1, r) ==
    IF ~r.ok
    THEN [NalResult(AVERROR_INVALIDDATA, [c1 EXCEPT !.pc = r.ev]) EXCEPT !.oob = r.oob]
    ELSE NalResult(IF r.ev.sps[r.id].chroma_format_idc = 1 THEN 0 ELSE -1,
                   [c1 EXCEPT !.pc = r.ev,
                              !.profile = IF r.ev.sps[r.id].profile_idc = 1
                                          THEN FF_PROFILE_EVC_MAIN
                                          ELSE FF_PROFILE_EVC_BASELINE])

\* parse_nal_unit, lines 884..891: the PPS case
parser_nal_pps(c1, r) ==
    IF ~r.ok
    THEN [NalResult(AVERROR_INVALIDDATA, [c1 EXCEPT !.pc = r.ev]) EXCEPT !.oob = r.oob]
    ELSE NalResult(0, [c1 EXCEPT !.pc = r.ev])

\* parse_nal_unit, lines 898..1001: the slice case; d the POC derivation
parser_nal_poc(c1, r, d) ==
    [NalResult(0, [c1 EXCEPT !.pc = [r.ev EXCEPT !.poc = d.poc]]) EXCEPT !.hang = d.hang]

parser_nal_slice(c1, r, nalu_type, tid) ==
    IF ~r.ok
    THEN [NalResult(AVERROR_INVALIDDATA, [c1 EXCEPT !.pc = r.ev]) EXCEPT !.oob = r.oob]
    ELSE parser_nal_poc(c1, r,
             poc_derivation(r.ev.poc,
                            Slot(r.ev.sps, r.ev.slice_header[r.id].slice_pic_parameter_set_id,
                                 ZeroSps),
                            r.ev.slice_header[r.id], nalu_type, tid))

\* parse_nal_unit of evc_parser.c on the NAL unit buf (header and payload,
\* buf_size = Len(buf)).  The fields of AVCodecParserContext and
\* AVCodecContext it fills in for the caller (dimensions, picture type,
\* key_frame, gop_size, delay) are left out; profile is avctx->profile.
\* The bit reader is opened over buf_size bytes counted from the payload, two
\* more than the payload has; reads behind the payload see zero bits here.
parser_parse_nal_unit(buf, ctx) ==
    LET nalu_type == get_nalu_type(buf)
        tid  == get_temporal_id(buf)
        c1   == [ctx EXCEPT !.pc.nalu_type = nalu_type]
        data == SubSeq(buf, EVC_NALU_HEADER_SIZE + 1, Len(buf))
    IN  IF Len(buf) <= 0 THEN NalResult(AVERROR_INVALIDDATA, ctx)
        ELSE IF nalu_type < EVC_NOIDR_NUT \/ nalu_type > EVC_UNSPEC_NUT62
        THEN NalResult(AVERROR_INVALIDDATA, ctx)
        ELSE IF tid < 0 THEN NalResult(AVERROR_INVALIDDATA, c1)
        ELSE IF nalu_type = EVC_SPS_NUT
        THEN parser_nal_sps(c1, parser_parse_sps(data, c1.pc))
        ELSE IF nalu_type = EVC_PPS_NUT
        THEN parser_nal_pps(c1, parser_parse_pps(data, c1.pc))
        ELSE IF nalu_type \in {EVC_IDR_NUT, EVC_NOIDR_NUT}
        THEN parser_nal_slice(c1, parser_parse_slice_header(data, c1.pc), nalu_type, tid)
        ELSE NalResult(0, c1)

\* The parser's state: pc the parameter sets, slice headers, nalu_type and
\* POC of EVCParserContext; profile is avctx->profile; buffer the bytes
\* ParseContext holds (pc->buffer[0 .. pc->index)); handed records, for the
\* properties, every NAL unit given to parse_nal_unit.
InitEVCParser ==
    [pc |-> InitParserContext, profile |-> FF_PROFILE_UNKNOWN,
     to_read |-> 0, bytes_read |-> 0, nalu_size |-> 0,
     incomplete_nalu_prefix_read |-> 0, incomplete_nalu_read |-> 0,
     nalu_prefix_assembled |-> 0,
     buffer |-> <<>>, handed |-> <<>>]

\* evc_assemble_nalu_prefix: byte i of the prefix comes from pc->buffer[i]
\* while i < pc->index and from data[i - pc->index] after that
evc_assemble_nalu_prefix(ctx, data) ==
    [i \in 1..EVC_NALU_LENGTH_PREFIX_SIZE |->
        IF i <= Len(ctx.buffer) THEN ctx.buffer[i]
        ELSE IF i - Len(ctx.buffer) <= Len(data) THEN data[i - Len(ctx.buffer)]
        ELSE 0]

\* evc_assemble_nalu: the bytes of pc->buffer from bytes_read on, followed
\* by to_read bytes of data
evc_assemble_nalu(ctx, data) ==
    SubSeq(ctx.buffer, ctx.bytes_read + 1, Len(ctx.buffer)) \o SubSeq(data, 1, ctx.to_read)

\* The parser's copy of end_of_access_unit_found reads the profile from
\* avctx and the NAL type and POC from the context
parser_end_of_access_unit_found(ctx) ==
    end_of_access_unit_found(ctx.profile, ctx.pc.nalu_type, ctx.pc.poc)

\* The result of evc_find_frame_end: ret its return value, ctx the context
\* it leaves, oob an access outside an allocation, hang a loop without end
FrameEnd(ret, ctx) == [ret |-> ret, ctx |-> ctx, oob |-> FALSE, hang |-> FALSE]

FrameEndFailed(p) ==
    [ret |-> AVERROR_INVALIDDATA, ctx |-> p.ctx, oob |-> p.oob, hang |-> p.hang]

Handing(ctx, nalu) == [ctx EXCEPT !.handed = Append(@, nalu)]

RECURSIVE evc_find_frame_end(_, _)

\* lines 1128..1147: p is the result of parse_nal_unit on a NAL unit taken
\* from the chunk, rest the chunk behind it
frame_end_direct(p, rest) ==
    IF p.ret # 0 \/ p.oob \/ p.hang THEN FrameEndFailed(p)
    ELSE IF parser_end_of_access_unit_found(p.ctx)
    THEN FrameEnd(p.ctx.bytes_read + p.ctx.nalu_size, [p.ctx EXCEPT !.bytes_read = 0])
    ELSE evc_find_frame_end([p.ctx EXCEPT !.bytes_read = @ + p.ctx.nalu_size], rest)

\* lines 1120..1147: the NAL unit of ctx.nalu_size bytes is due at data
frame_end_nalu(ctx, data) ==
    IF Len(data) < ctx.nalu_size
    THEN FrameEnd(END_NOT_FOUND, [ctx EXCEPT !.to_read = ctx.nalu_size - Len(data),
                                             !.incomplete_nalu_read = 1])
    ELSE frame_end_direct(
             parser_parse_nal_unit(SubSeq(data, 1, ctx.nalu_size),
                                   Handing(ctx, SubSeq(data, 1, ctx.nalu_size))),
             SubSeq(data, ctx.nalu_size + 1, Len(data)))

\* lines 1197..1214: p is the result of parse_nal_unit on the assembled NAL
\* unit, to_read the bytes of the chunk it took, rest the chunk behind them
frame_end_assembled(p, to_read, rest) ==
    IF p.ret # 0 \/ p.oob \/ p.hang THEN FrameEndFailed(p)
    ELSE IF parser_end_of_access_unit_found(p.ctx)
    THEN FrameEnd(to_read, [p.ctx EXCEPT !.bytes_read = 0, !.to_read = 0,
                                         !.incomplete_nalu_read = 0])
    ELSE evc_find_frame_end([p.ctx EXCEPT !.bytes_read = @ + p.ctx.nalu_size,
                                          !.incomplete_nalu_read = 0,
                                          !.to_read = 0], rest)

\* lines 1179..1214: a NAL unit is completed from the retained bytes and the
\* chunk.  evc_assemble_nalu copies index - bytes_read retained bytes and
\* to_read new ones into nalu_size allocated bytes; when these do not add up
\* the copy runs over the allocation or leaves part of it unwritten.
frame_end_resume(ctx, data) ==
    IF Len(ctx.buffer) - ctx.bytes_read < 0
       \/ Len(ctx.buffer) - ctx.bytes_read + ctx.to_read # ctx.nalu_size
    THEN [FrameEnd(AVERROR_INVALIDDATA, ctx) EXCEPT !.oob = TRUE]
    ELSE frame_end_assembled(
             parser_parse_nal_unit(evc_assemble_nalu(ctx, data),
                                   Handing(ctx, evc_assemble_nalu(ctx, data))),
             ctx.to_read, SubSeq(data, ctx.to_read + 1, Len(data)))

\* evc_find_frame_end on the chunk data (the loop of lines 1103..1224, one
\* iteration per evaluation)
evc_find_frame_end(ctx, data) ==
    IF Len(data) <= 0 THEN FrameEnd(END_NOT_FOUND, ctx)
    ELSE IF ctx.to_read = 0
    THEN IF ctx.nalu_prefix_assembled # 0
         THEN frame_end_nalu([ctx EXCEPT !.nalu_prefix_assembled = 0], data)
         ELSE IF Len(data) < EVC_NALU_LENGTH_PREFIX_SIZE
         THEN FrameEnd(END_NOT_FOUND,
                       [ctx EXCEPT !.to_read = EVC_NALU_LENGTH_PREFIX_SIZE - Len(data),
                                   !.incomplete_nalu_prefix_read = 1])
         ELSE frame_end_nalu(
                  [ctx EXCEPT !.nalu_size = read_nal_unit_length(data),
                              !.bytes_read = @ + EVC_NALU_LENGTH_PREFIX_SIZE],
                  SubSeq(data, EVC_NALU_LENGTH_PREFIX_SIZE + 1, Len(data)))
    ELSE IF ctx.to_read < Len(data)
    THEN IF ctx.incomplete_nalu_prefix_read = 1
         THEN evc_find_frame_end(
                  [ctx EXCEPT !.nalu_size = read_nal_unit_length(
                                                evc_assemble_nalu_prefix(ctx, data)),
                              !.bytes_read = @ + ctx.to_read,
                              !.to_read = 0,
                              !.incomplete_nalu_prefix_read = 0,
                              !.nalu_prefix_assembled = 1],
                  SubSeq(data, ctx.to_read + 1, Len(data)))
         ELSE IF ctx.incomplete_nalu_read = 1
         THEN frame_end_resume(ctx, data)
         ELSE [FrameEnd(END_NOT_FOUND, ctx) EXCEPT !.hang = TRUE]
    ELSE FrameEnd(END_NOT_FOUND, [ctx EXCEPT !.to_read = @ - Len(data)])

\* ff_combine_frame (libavcodec/parser.c) on the retained bytes, the frame
\* end next and the chunk buf.  A frame end behind the chunk is refused; an
\* empty chunk without a frame end flushes what is retained; without a frame
\* end the chunk is retained; with one, the retained bytes and the chunk up
\* to next are the frame.  Any other negative next indexes before the chunk.
ff_combine_frame(buffer, next, buf) ==
    IF next > Len(buf)
    THEN [ret |-> AVERROR_EINVAL, buffer |-> buffer, out |-> <<>>, oob |-> FALSE]
    ELSE IF next = END_NOT_FOUND /\ Len(buf) = 0
    THEN [ret |-> 0, buffer |-> <<>>, out |-> buffer, oob |-> FALSE]
    ELSE IF next = END_NOT_FOUND
    THEN [ret |-> -1, buffer |-> buffer \o buf, out |-> <<>>, oob |-> FALSE]
    ELSE IF next >= 0
    THEN [ret |-> 0, buffer |-> <<>>, out |-> buffer \o SubSeq(buf, 1, next),
          oob |-> FALSE]
    ELSE [ret |-> next, buffer |-> buffer, out |-> <<>>, oob |-> TRUE]

\* The result of evc_parse: ret its return value, next what
\* evc_find_frame_end returned, out the bytes behind *poutbuf (empty when
\* NULL), ctx the context it leaves
ParseResult(ret, next, out, ctx) ==
    [ret |-> ret, next |-> next, out |-> out, ctx |-> ctx, oob |-> FALSE, hang |-> FALSE]

\* evc_parse, lines 1241..1253: r is the result of ff_combine_frame
evc_parse_out(next, ctx, buf, r) ==
    IF r.oob
    THEN [ParseResult(next, next, <<>>, ctx) EXCEPT !.oob = TRUE]
    ELSE IF r.ret < 0
    THEN ParseResult(Len(buf), next, <<>>, [ctx EXCEPT !.buffer = r.buffer])
    ELSE ParseResult(next, next, r.out, [ctx EXCEPT !.buffer = r.buffer])

\* evc_parse, lines 1241..1242: f is the result of evc_find_frame_end
evc_parse_combine(f, buf) ==
    IF f.oob \/ f.hang
    THEN [ParseResult(f.ret, f.ret, <<>>, f.ctx) EXCEPT !.oob = f.oob, !.hang = f.hang]
    ELSE evc_parse_out(f.ret, f.ctx, buf, ff_combine_frame(f.ctx.buffer, f.ret, buf))

\* evc_parse on the chunk buf, PARSER_FLAG_COMPLETE_FRAMES not set
evc_parse(ctx, buf) == evc_parse_combine(evc_find_frame_end(ctx, buf), buf)

\* ------------------------------------------------------------------------
\* The demuxer (libavformat/evcdec.c)
\* ------------------------------------------------------------------------
\* The demuxer's parse_sps, parse_pps and parse_slice_header allocate and
\* look up their slots as the functions of evc_parse.c do and read the same
\* syntax, but skip some elements instead of storing them, and parse_sps
\* and parse_pps return before the last elements.  The fields below are the
\* modelled ones the demuxer never writes; they keep what the slot held.
DemuxSpsSkipped ==
    {"level_idc", "pic_width_in_luma_samples", "pic_height_in_luma_samples",
     "log2_ref_pic_gap_length", "max_num_tid0_ref_pics",
     "sps_max_dec_pic_buffering_minus1", "rpl1_same_as_rpl0_flag",
     "num_ref_pic_list_in_sps0", "num_ref_pic_list_in_sps1",
     "picture_cropping_flag", "picture_crop_left_offset",
     "picture_crop_right_offset", "picture_crop_top_offset",
     "picture_crop_bottom_offset"}

DemuxPpsSkipped == {"cu_qp_delta_enabled_flag"}

KeepFields(old, new, skipped) ==
    [f \in DOMAIN new |-> IF f \in skipped THEN old[f] ELSE new[f]]

\* parse_sps of evcdec.c: r is the outcome of the shared syntax on the slot
demux_sps_stored(ev, junk, r) ==
    IF ~r.ok THEN r
    ELSE [r EXCEPT !.ev.sps[r.id] =
             KeepFields(Slot(ev.sps, r.id, junk.sps), @, DemuxSpsSkipped)]

demux_parse_sps(bs, ev, junk) ==
    demux_sps_stored(ev, junk, ff_evc_parse_sps(bs, ev, junk))

\* parse_pps of evcdec.c
demux_pps_stored(ev, junk, r) ==
    IF ~r.ok THEN r
    ELSE [r EXCEPT !.ev.pps[r.id] =
             KeepFields(Slot(ev.pps, r.id, junk.pps), @, DemuxPpsSkipped)]

demux_parse_pps(bs, ev, junk) ==
    demux_pps_stored(ev, junk, ff_evc_parse_pps(bs, ev, junk))

\* parse_slice_header of evcdec.c stores every modelled field
demux_parse_slice_header(bs, ev, junk) == ff_evc_parse_slice_header(bs, ev, junk)

\* EVCDemuxContext after allocation (zero-initialised private data)
InitDemuxContext == [pc |-> InitParserContext, profile |-> 0, key_frame |-> 0]

\* parse_nal_unit of evcdec.c on the NAL unit buf.  Its SPS, PPS and slice
\* cases are those of the bitstream filter's parse_nal_unit.
demux_parse_nal_unit(buf, ctx, junk) ==
    LET nalu_type == get_nalu_type(buf)
        tid  == get_temporal_id(buf)
        c1   == [ctx EXCEPT !.pc.nalu_type = nalu_type]
        data == SubSeq(buf, EVC_NALU_HEADER_SIZE + 1, Len(buf))
    IN  IF Len(buf) <= 0 THEN NalResult(AVERROR_INVALIDDATA, ctx)
        ELSE IF nalu_type < EVC_NOIDR_NUT \/ nalu_type > EVC_UNSPEC_NUT62
        THEN NalResult(AVERROR_INVALIDDATA, ctx)
        ELSE IF tid < 0 THEN NalResult(AVERROR_INVALIDDATA, c1)
        ELSE IF nalu_type = EVC_SPS_NUT
        THEN nal_sps(c1, demux_parse_sps(data, c1.pc, junk))
        ELSE IF nalu_type = EVC_PPS_NUT
        THEN nal_pps(c1, demux_parse_pps(data, c1.pc, junk))
        ELSE IF nalu_type \in {EVC_IDR_NUT, EVC_NOIDR_NUT}
        THEN nal_slice(c1, demux_parse_slice_header(data, c1.pc, junk), nalu_type, tid)
        ELSE NalResult(0, c1)

\* end_of_access_unit_found of evcdec.c
demux_end_of_access_unit_found(ctx) ==
    end_of_access_unit_found(ctx.profile, ctx.pc.nalu_type, ctx.pc.poc)

\* avio_read(pb, buf, size) on the stream io at offset pos: the number of
\* bytes read, or AVERROR_EOF when none is left
avio_read(io, pos, size) ==
    IF pos >= Len(io) THEN AVERROR_EOF ELSE Min(size, Len(io) - pos)

\* The result of evc_read_packet: ret its return value, pkt the packet's
\* bytes (empty when unreferenced), ctx and pos the context and the stream
\* offset it leaves, parsed the return values of its parse_nal_unit calls
ReadResult(ret, pkt, ctx, pos, parsed) ==
    [ret |-> ret, pkt |-> pkt, ctx |-> ctx, pos |-> pos, parsed |-> parsed,
     oob |-> FALSE, hang |-> FALSE]

RECURSIVE read_packet_loop(_, _, _, _, _, _)

\* evc_read_packet, lines 968..973: p is the outcome of parse_nal_unit on
\* the unit of nalu_size bytes just read to the end of pkt; its return
\* value is not looked at
read_packet_parsed(p, io, pos, pkt, junk, parsed, nalu_size) ==
    IF p.oob \/ p.hang
    THEN [ReadResult(p.ret, pkt, p.ctx, pos, Append(parsed, p.ret))
             EXCEPT !.oob = p.oob, !.hang = p.hang]
    ELSE IF demux_end_of_access_unit_found(p.ctx)
    THEN ReadResult(nalu_size, pkt, p.ctx, pos, Append(parsed, p.ret))
    ELSE read_packet_loop(p.ctx, io, pos, pkt, junk, Append(parsed, p.ret))

\* evc_read_packet, lines 943..973: the length prefix has been read at pos
read_packet_nalu(ctx, io, pos, pkt, junk, parsed, nalu_size) ==
    IF nalu_size <= 0
    THEN ReadResult(-1, <<>>, ctx, pos + EVC_NALU_LENGTH_PREFIX_SIZE, parsed)
    ELSE IF avio_read(io, pos + EVC_NALU_LENGTH_PREFIX_SIZE, nalu_size) < 0
    THEN ReadResult(AVERROR_EOF, <<>>, ctx, pos + EVC_NALU_LENGTH_PREFIX_SIZE, parsed)
    ELSE IF avio_read(io, pos + EVC_NALU_LENGTH_PREFIX_SIZE, nalu_size) < nalu_size
    THEN [ReadResult(nalu_size, pkt, ctx, Len(io), parsed) EXCEPT !.oob = TRUE]
    ELSE read_packet_parsed(
             demux_parse_nal_unit(
                 SubSeq(io, pos + EVC_NALU_LENGTH_PREFIX_SIZE + 1,
                        pos + EVC_NALU_LENGTH_PREFIX_SIZE + nalu_size),
                 ctx, junk),
             io, pos + EVC_NALU_LENGTH_PREFIX_SIZE + nalu_size,
             pkt \o SubSeq(io, pos + 1, pos + EVC_NALU_LENGTH_PREFIX_SIZE + nalu_size),
             junk, parsed, nalu_size)

\* evc_read_packet, lines 927..973: one iteration of the loop over NAL
\* units.  A length prefix or unit cut short by the end of the stream
\* leaves bytes of the packet unwritten that are then read.  The packet is
\* grown as needed; its allocated size is not modelled.
read_packet_loop(ctx, io, pos, pkt, junk, parsed) ==
    IF avio_read(io, pos, EVC_NALU_LENGTH_PREFIX_SIZE) < 0
    THEN ReadResult(AVERROR_EOF, <<>>, ctx, pos, parsed)
    ELSE IF avio_read(io, pos, EVC_NALU_LENGTH_PREFIX_SIZE) < EVC_NALU_LENGTH_PREFIX_SIZE
    THEN [ReadResult(-1, pkt, ctx, Len(io), parsed) EXCEPT !.oob = TRUE]
    ELSE read_packet_nalu(ctx, io, pos, pkt, junk, parsed,
                          read_nal_unit_length(
                              SubSeq(io, pos + 1, pos + EVC_NALU_LENGTH_PREFIX_SIZE)))

\* evc_read_packet on the stream io at offset pos
evc_read_packet(ctx, io, pos, junk) ==
    IF pos >= Len(io) THEN ReadResult(AVERROR_EOF, <<>>, ctx, pos, <<>>)
    ELSE read_packet_loop(ctx, io, pos, <<>>, junk, <<>>)

\* ------------------------------------------------------------------------
\* The evcC writer (libavformat/evc.c)
\* ------------------------------------------------------------------------
\* evc.c holds static copies of get_nalu_type and read_nal_unit_length, the
\* same code as the copies of evc_parser.c above.
EVC_NAL_UNIT_LENGTH_BYTE == 4

\* u32(st, f): rec.f = get_bits(32), kept as its four bytes, most
\* significant first
u32(st, f) ==
    [rec |-> [st.rec EXCEPT ![f] = [i \in 1..4 |->
                 BitsValue(st.gb.buf, st.gb.index + 8 * (i - 1), 8)]],
     gb  |-> [st.gb EXCEPT !.index = @ + 32]]

\* evcc_init: the record zeroed, version 1, 4-byte lengths, no arrays
evcc_init ==
    [configurationVersion |-> 1, profile_idc |-> 0, level_idc |-> 0,
     toolset_idc_h |-> <<0, 0, 0, 0>>, toolset_idc_l |-> <<0, 0, 0, 0>>,
     chroma_format_idc |-> 0,
     bit_depth_luma_minus8 |-> 0, bit_depth_chroma_minus8 |-> 0,
     pic_width_in_luma_samples |-> 0, pic_height_in_luma_samples |-> 0,
     lengthSizeMinusOne |-> 3, array |-> <<>>]

\* The local EVCSPS of evcc_parse_sps; every field is assigned before it is
\* read
EVCSPS ==
    [sps_seq_parameter_set_id |-> 0, profile_idc |-> 0, level_idc |-> 0,
     toolset_idc_h |-> <<0, 0, 0, 0>>, toolset_idc_l |-> <<0, 0, 0, 0>>,
     chroma_format_idc |-> 0,
     pic_width_in_luma_samples |-> 0, pic_height_in_luma_samples |-> 0,
     bit_depth_luma_minus8 |-> 0, bit_depth_chroma_minus8 |-> 0]

\* evcc_parse_sps, lines 156..180: the syntax elements read from bs into
\* the local EVCSPS
evcc_sps_syntax(bs) ==
    ue(ue(ue(ue(ue(u32(u32(u(u(ue([gb |-> init_get_bits8(bs), rec |-> EVCSPS],
                                  "sps_seq_parameter_set_id"),
                               "profile_idc", 8),
                             "level_idc", 8),
                           "toolset_idc_h"),
                       "toolset_idc_l"),
                   "chroma_format_idc"),
                "pic_width_in_luma_samples"),
             "pic_height_in_luma_samples"),
          "bit_depth_luma_minus8"),
       "bit_depth_chroma_minus8").rec

\* evcc_parse_sps, lines 182..190: the assignments to the fields of the
\* record, of 8 and 16 bits
evcc_assign(evcc, sps) ==
    [evcc EXCEPT !.profile_idc = sps.profile_idc % 256,
                 !.level_idc = sps.level_idc % 256,
                 !.toolset_idc_h = sps.toolset_idc_h,
                 !.toolset_idc_l = sps.toolset_idc_l,
                 !.chroma_format_idc = sps.chroma_format_idc % 256,
                 !.bit_depth_luma_minus8 = sps.bit_depth_luma_minus8 % 256,
                 !.bit_depth_chroma_minus8 = sps.bit_depth_chroma_minus8 % 256,
                 !.pic_width_in_luma_samples = sps.pic_width_in_luma_samples % 65536,
                 !.pic_height_in_luma_samples = sps.pic_height_in_luma_samples % 65536]

\* evcc_parse_sps on the bytes bs.  The id read goes to sps.sps_seq_parameter_set_id,
\* the range test reads the local sps_seq_parameter_set_id, which is never
\* assigned: id_local is the value it happens to hold.
evcc_parse_sps(bs, evcc, id_local) ==
    IF id_local >= EVC_MAX_SPS_COUNT THEN evcc
    ELSE evcc_assign(evcc, evcc_sps_syntax(bs))

\* evcc_array_add_nal_unit: the unit goes to the array of its type, which
\* is appended when there is none yet
ArrayIndex(array, nal_type) ==
    IF \E i \in 1..Len(array) : array[i].NAL_unit_type = nal_type
    THEN CHOOSE i \in 1..Len(array) :
            /\ array[i].NAL_unit_type = nal_type
            /\ \A j \in 1..(i - 1) : array[j].NAL_unit_type # nal_type
    ELSE Len(array) + 1

evcc_array_add_nal_unit(nal, nal_type, ps_array_completeness, evcc) ==
    LET index == ArrayIndex(evcc.array, nal_type)
        array == IF index > Len(evcc.array)
                 THEN Append(evcc.array, [array_completeness |-> 0,
                                          NAL_unit_type |-> 0, nalUnit |-> <<>>])
                 ELSE evcc.array
    IN  [evcc EXCEPT !.array =
            [array EXCEPT ![index] =
                [array_completeness |-> IF nal_type \in {EVC_SPS_NUT, EVC_PPS_NUT}
                                        THEN ps_array_completeness % 256
                                        ELSE @.array_completeness,
                 NAL_unit_type |-> nal_type,
                 nalUnit |-> Append(@.nalUnit, SubSeq(nal, 1, Len(nal) % 65536))]]]

\* avio_wb16
wb16(v) == <<(v \div 256) % 256, v % 256>>

\* The low 8 bits of a | b
ByteOr(a, b) ==
    LET or(i) == IF (a \div Pow2(i)) % 2 = 1 \/ (b \div Pow2(i)) % 2 = 1
                 THEN Pow2(i) ELSE 0
    IN  or(0) + or(1) + or(2) + or(3) + or(4) + or(5) + or(6) + or(7)

\* evcc_write, lines 379..391: one array
RECURSIVE evcc_write_units(_)
evcc_write_units(units) ==
    IF units = <<>> THEN <<>>
    ELSE wb16(Len(Head(units))) \o Head(units) \o evcc_write_units(Tail(units))

RECURSIVE evcc_write_arrays(_)
evcc_write_arrays(array) ==
    IF array = <<>> THEN <<>>
    ELSE <<ByteOr(Head(array).array_completeness * 128, Head(array).NAL_unit_type % 64)>>
         \o wb16(Len(Head(array).nalUnit))
         \o evcc_write_units(Head(array).nalUnit)
         \o evcc_write_arrays(Tail(array))

RECURSIVE CountNalus(_, _)
CountNalus(array, nal_type) ==
    IF array = <<>> THEN 0
    ELSE (IF Head(array).NAL_unit_type = nal_type THEN Len(Head(array).nalUnit) ELSE 0)
         + CountNalus(Tail(array), nal_type)

\* evcc_write: the value returned and the bytes written
evcc_write(evcc) ==
    IF CountNalus(evcc.array, EVC_SPS_NUT) = 0
       \/ CountNalus(evcc.array, EVC_SPS_NUT) > EVC_MAX_SPS_COUNT
    THEN [ret |-> AVERROR_INVALIDDATA, out |-> <<>>]
    ELSE [ret |-> 0,
          out |-> <<evcc.configurationVersion, evcc.profile_idc, evcc.level_idc>>
                  \o evcc.toolset_idc_h \o evcc.toolset_idc_l
                  \o <<ByteOr(ByteOr(evcc.chroma_format_idc * 64,
                                     evcc.bit_depth_luma_minus8 * 8),
                              evcc.bit_depth_chroma_minus8)>>
                  \o wb16(evcc.pic_width_in_luma_samples)
                  \o wb16(evcc.pic_height_in_luma_samples)
                  \o <<ByteOr(evcc.lengthSizeMinusOne, 252), Len(evcc.array) % 256>>
                  \o evcc_write_arrays(evcc.array)]

\* ff_isom_write_evcc, lines 438..449: the NAL unit nal of type nalu_type.
\* evcc_parse_sps is given the unit from its first byte, the NAL unit header.
evcc_take_unit(nal, nalu_type, ps_array_completeness, evcc, id_local) ==
    IF nalu_type = EVC_SPS_NUT
    THEN evcc_parse_sps(nal, evcc_array_add_nal_unit(nal, nalu_type,
                                                     ps_array_completeness, evcc),
                        id_local)
    ELSE IF nalu_type \in {EVC_APS_NUT, EVC_PPS_NUT}
    THEN evcc_array_add_nal_unit(nal, nalu_type, ps_array_completeness, evcc)
    ELSE evcc

\* ff_isom_write_evcc, lines 424..451: the loop over the units of data from
\* offset pos on; the record it leaves.  A length with the top bit set is
\* larger than any input.
RECURSIVE evcc_scan(_, _, _, _, _)
evcc_scan(data, pos, ps_array_completeness, evcc, id_local) ==
    LET nalu_size == read_nal_unit_length(SubSeq(data, pos + 1, pos + EVC_NAL_UNIT_LENGTH_BYTE))
        start == pos + EVC_NAL_UNIT_LENGTH_BYTE
    IN  IF Len(data) - pos <= EVC_NAL_UNIT_LENGTH_BYTE THEN evcc
        ELSE IF nalu_size = 0 THEN evcc
        ELSE IF nalu_size < 0 \/ Len(data) - start < nalu_size THEN evcc
        ELSE evcc_scan(data, start + nalu_size, ps_array_completeness,
                       evcc_take_unit(SubSeq(data, start + 1, start + nalu_size),
                                      get_nalu_type(SubSeq(data, start + 1, Len(data))),
                                      ps_array_completeness, evcc, id_local),
                       id_local)

\* ff_isom_write_evcc: the value returned and the bytes written to pb
ff_isom_write_evcc(data, ps_array_completeness, id_local) ==
    IF Len(data) < 8 THEN [ret |-> AVERROR_INVALIDDATA, out |-> <<>>]
    ELSE IF data[1] = 1 THEN [ret |-> 0, out |-> data]
    ELSE evcc_write(evcc_scan(data, 0, ps_array_completeness, evcc_init, id_local))

\* ------------------------------------------------------------------------
\* The XEVE encoder wrapper (libxeve.c)
\* ------------------------------------------------------------------------
\* enum State
STATE_ENCODING == 0
STATE_BUMPING == 1
STATE_SKIPPING == 2

\* xeve_color_space: the colour space of the pixel formats the encoder is
\* opened with; the 10-bit one depends on the byte order of the build
xeve_color_space(pix_fmt, bigendian) ==
    CASE pix_fmt = "yuv420p" -> "XEVE_CS_YCBCR420"
      [] pix_fmt = "yuv420p10" ->
             IF bigendian THEN "XEVE_CS_YCBCR420_10BE" ELSE "XEVE_CS_YCBCR420_10LE"
      [] OTHER -> "XEVE_CF_UNKNOWN"

\* av_pix_fmt_desc_get: whether the format has a descriptor
av_pix_fmt_desc_get(format) == format \in {"yuv420p", "yuv420p10"}

\* The context libxeve_init leaves (lines 871..939): the pixel format is one
\* of the two it accepts, the engine is created, the state is STATE_ENCODING
libxeve_init(pix_fmt, bigendian) ==
    [state |-> STATE_ENCODING, pix_fmt |-> pix_fmt, bigendian |-> bigendian,
     id |-> "xeve", encod_frames |-> 0, packet_count |-> 0]

\* The result of a libxeve_encode call: the value returned, the context
\* left, the frames given to xeve_push, whether xeve_encode was called and
\* got_packet
EncodeResult(ret, xc, pushed, encoded, got_packet) ==
    [ret |-> ret, ctx |-> xc, pushed |-> pushed, encoded |-> encoded,
     got_packet |-> got_packet]

\* A frame brings the encoder back to STATE_ENCODING from any state
encode_transition_resume_any(state, frame, bumping) ==
    IF state # STATE_ENCODING /\ frame # <<>> THEN STATE_ENCODING
    ELSE IF state = STATE_ENCODING /\ frame = <<>>
    THEN IF bumping = 0 THEN STATE_BUMPING ELSE STATE_SKIPPING
    ELSE state

\* libxeve_encode, lines 971..982: the state after the transition step.
\* frame is <<>> for a NULL frame; bumping is the value of setup_bumping.
encode_transition(state, frame, bumping) ==
    IF state = STATE_SKIPPING /\ frame # <<>> THEN STATE_ENCODING
    ELSE IF state = STATE_ENCODING /\ frame = <<>>
    THEN IF bumping = 0 THEN STATE_BUMPING ELSE STATE_SKIPPING
    ELSE state

\* Lines 1032..1109: xeve_encode and what is made of its result.  eng gives
\* the outcomes of the engine calls.
encode_output(xc, pushed, eng) ==
    IF eng.encode = "XEVE_ERR" THEN EncodeResult(-1, xc, pushed, TRUE, 0)
    ELSE LET x1 == [xc EXCEPT !.encod_frames = @ + 1]
         IN  CASE eng.encode = "XEVE_OK_OUT_NOT_AVAILABLE" ->
                      EncodeResult(0, x1, pushed, TRUE, 0)
               [] eng.encode = "XEVE_OK" ->
                      IF eng.write > 0
                      THEN IF eng.grow < 0
                           THEN EncodeResult(eng.grow, x1, pushed, TRUE, 0)
                           ELSE IF eng.stype = "XEVE_ST_UNKNOWN"
                           THEN EncodeResult(-1, x1, pushed, TRUE, 0)
                           ELSE EncodeResult(0, [x1 EXCEPT !.packet_count = @ + 1],
                                             pushed, TRUE, 1)
                      ELSE EncodeResult(0, x1, pushed, TRUE, 0)
               [] eng.encode = "XEVE_OK_NO_MORE_FRM" ->
                      EncodeResult(0, x1, pushed, TRUE, 0)
               [] OTHER -> EncodeResult(-1, x1, pushed, TRUE, 0)

\* Lines 984..1031: the frame is handed to xeve_push
encode_push(xc, frame, eng) ==
    IF ~av_pix_fmt_desc_get(frame[1].format)
    THEN EncodeResult(-1, xc, <<>>, FALSE, 0)
    ELSE IF xeve_color_space(xc.pix_fmt, xc.bigendian)
               \notin {"XEVE_CS_YCBCR420", "XEVE_CS_YCBCR420_10LE"}
    THEN EncodeResult(-1, xc, <<>>, FALSE, 0)
    ELSE IF xc.id = "NULL" THEN EncodeResult(-1, xc, <<>>, FALSE, 0)
    ELSE IF eng.push # 0 THEN EncodeResult(-1, xc, frame, FALSE, 0)
    ELSE encode_output(xc, frame, eng)

\* libxeve_encode.  frame is <<>> (NULL) or a sequence of one frame.  A NULL
\* frame in STATE_ENCODING after the transition step cannot occur; the code
\* would dereference it.
libxeve_encode(xc, frame, eng) ==
    LET x1 == [xc EXCEPT !.state = encode_transition(xc.state, frame, eng.bumping)]
    IN  IF x1.state = STATE_ENCODING
        THEN IF frame = <<>>
             THEN [EncodeResult(-1, x1, <<>>, FALSE, 0) EXCEPT !.ret = "undefined"]
             ELSE encode_push(x1, frame, eng)
        ELSE IF x1.state = STATE_BUMPING
        THEN encode_output(x1, <<>>, eng)
        ELSE EncodeResult(-1, x1, <<>>, FALSE, 0)

\* ------------------------------------------------------------------------
\* Input: NAL units written as the bitstream syntax prescribes
\* ------------------------------------------------------------------------
RECURSIVE EncU(_, _)
EncU(v, n) == IF n = 0 THEN <<>> ELSE EncU(v \div 2, n - 1) \o <<v % 2>>

\* 0-th order Exp-Golomb code of v
EncUE(v) ==
    LET k == FloorLog2(v + 1)
    IN  Zeros(k) \o <<1>> \o EncU(v + 1 - Pow2(k), k)

\* The codes of the unsigned value v and of the signed value v: a positive
\* v has the unsigned code 2v - 1, any other v the code -2v
write_ue(v) == EncUE(v)

write_se(v) == EncUE(IF v > 0 THEN 2 * v - 1 ELSE -2 * v)

BitsToByte(b) ==
    b[1] * 128 + b[2] * 64 + b[3] * 32 + b[4] * 16 + b[5] * 8 + b[6] * 4 + b[7] * 2 + b[8]

RECURSIVE PackBytes(_)
PackBytes(bits) ==
    IF Len(bits) = 0 THEN <<>>
    ELSE <<BitsToByte(SubSeq(bits, 1, 8))>> \o PackBytes(SubSeq(bits, 9, Len(bits)))

\* RBSP: the bits, the stop bit, zero bits up to the byte boundary
Rbsp(bits) ==
    LET b == bits \o <<1>>
        pad == (8 - (Len(b) % 8)) % 8
    IN  PackBytes(b \o Zeros(pad))

NalHeader(type, tid) ==
    <<(type + 1) * 2 + (tid \div 4), (tid % 4) * 64>>

\* A NAL unit behind its 4-byte big-endian length
Framed(nal) == <<0, 0, Len(nal) \div 256, Len(nal) % 256>> \o nal

SpsBits(id, profile, chroma, admvp, mmvd, pocs, log2max, log2sub) ==
    EncUE(id) \o EncU(profile, 8) \o EncU(30, 8) \o Zeros(32) \o Zeros(32)
    \o EncUE(chroma) \o EncUE(3) \o EncUE(2) \o EncUE(0) \o EncUE(0)
    \o <<0, 0, admvp>> \o (IF admvp = 1 THEN <<0, 0, 0, mmvd, 0>> ELSE <<>>)
    \o <<0, 0, 0>> \o <<0, 0, 0, 0, pocs, 0, 0>>
    \o (IF pocs = 1 THEN EncUE(log2max) ELSE <<>>)
    \o EncUE(log2sub) \o (IF log2sub = 0 THEN EncUE(0) ELSE <<>>)
    \o EncUE(0) \o <<0>> \o (IF chroma # 0 THEN <<0>> ELSE <<>>) \o <<0>>

SpsPacket(id, profile, chroma, admvp, mmvd, pocs, log2max, log2sub) ==
    Framed(NalHeader(EVC_SPS_NUT, 0)
           \o Rbsp(SpsBits(id, profile, chroma, admvp, mmvd, pocs, log2max, log2sub)))

PpsPacket(id, sps_id) ==
    Framed(NalHeader(EVC_PPS_NUT, 0)
           \o Rbsp(EncUE(id) \o EncUE(sps_id) \o EncUE(0) \o EncUE(0) \o EncUE(0)
                   \o <<0, 1>> \o EncUE(0) \o <<0, 0, 0, 0, 0>>))

\* A slice: pps id, slice_type, [no_output_of_prior_pics_flag], poc lsb
\* (4 bits), then one byte of slice data
SlicePacket(type, tid, pps_id, slice_type, lsb) ==
    Framed(NalHeader(type, tid)
           \o Rbsp(EncUE(pps_id) \o EncUE(slice_type)
                   \o (IF type = EVC_IDR_NUT THEN <<0>> ELSE <<>>)
                   \o EncU(lsb, 4) \o EncU(165, 8)))

\* A NAL unit of another type with n payload bytes
OtherPacket(type, n) == Framed(NalHeader(type, 0) \o [i \in 1..n |-> (i * 7) % 256])

\* ------------------------------------------------------------------------
\* Bounds and input sets
\* ------------------------------------------------------------------------
MaxCalls == 6

\* what av_malloc'ed memory may hold when a slot is first allocated
MallocContents ==
    { [sps |-> ZeroSps, pps |-> ZeroPps, sh |-> ZeroSliceHeader],
      [sps |-> [ZeroSps EXCEPT !.sps_mmvd_flag = 1,
                               !.log2_max_pic_order_cnt_lsb_minus4 = 1,
                               !.log2_sub_gop_length = 1],
       pps |-> [ZeroPps EXCEPT !.single_tile_in_pic_flag = 1],
       sh  |-> [ZeroSliceHeader EXCEPT !.slice_pic_order_cnt_lsb = 5]] }

LsbValues == {0, 7, 8, 9, 15}

\* MAIN profile, POC signalled in the slice header (sps_pocs_flag = 1,
\* MaxPicOrderCntLsb = 16)
ExplicitPackets ==
    { SpsPacket(0, 1, 1, 0, 0, 1, 0, 2),
      PpsPacket(0, 0),
      SlicePacket(EVC_IDR_NUT, 0, 0, EVC_SLICE_TYPE_I, 0) }
    \cup { SlicePacket(EVC_NOIDR_NUT, 0, 0, EVC_SLICE_TYPE_P, l) : l \in LsbValues }

\* BASELINE and MAIN profile, POC derived from the temporal id
\* (sps_pocs_flag = 0, SubGopLength = 4)
ImplicitPackets ==
    { SpsPacket(0, 0, 1, 0, 0, 0, 0, 2),
      SpsPacket(0, 1, 1, 0, 0, 0, 0, 2),
      PpsPacket(0, 0),
      SlicePacket(EVC_IDR_NUT, 0, 0, EVC_SLICE_TYPE_I, 0) }
    \cup { SlicePacket(EVC_NOIDR_NUT, t, 0, EVC_SLICE_TYPE_B, 0) : t \in 0..3 }

\* Parameter sets under ids 0 and 1 and across the ends of the tables, and
\* slices that refer to them.  SPS 0 derives the POC from the temporal id,
\* with or without the ADMVP tools (and sps_mmvd_flag); SPS 1 signals it.
\* Each PPS names the SPS of the other id.
MaxStoreCalls == 4

StorePackets ==
    { SpsPacket(0, 1, 1, 0, 0, 0, 0, 2), SpsPacket(0, 1, 1, 1, 1, 0, 0, 2),
      SpsPacket(1, 1, 1, 0, 0, 1, 0, 2),
      SpsPacket(EVC_MAX_SPS_COUNT, 1, 1, 0, 0, 0, 0, 2),
      PpsPacket(0, 1), PpsPacket(1, 0),
      PpsPacket(EVC_MAX_PPS_COUNT, 0), PpsPacket(EVC_MAX_PPS_COUNT + 1, 0),
      SlicePacket(EVC_NOIDR_NUT, 0, 0, EVC_SLICE_TYPE_P, 5),
      SlicePacket(EVC_NOIDR_NUT, 0, 1, EVC_SLICE_TYPE_P, 5) }

\* Number of evc_frame_merge_filter calls in a run over BufferPackets
MaxBufCalls == 3

\* Payload sizes that make the AU buffer (1024 bytes at first) double once
\* and twice
BigPayload == 1100
HugePayload == 2100

\* Both profiles, slices that end an AU and slices that do not, the NAL
\* unit types that are only buffered, and units larger than the buffer
BufferPackets ==
    { SpsPacket(0, 0, 1, 0, 0, 0, 0, 2),
      SpsPacket(0, 1, 1, 0, 0, 0, 0, 2),
      PpsPacket(0, 0),
      SlicePacket(EVC_IDR_NUT, 0, 0, EVC_SLICE_TYPE_I, 0),
      SlicePacket(EVC_NOIDR_NUT, 0, 0, EVC_SLICE_TYPE_P, 0),
      SlicePacket(EVC_NOIDR_NUT, 1, 0, EVC_SLICE_TYPE_B, 0),
      OtherPacket(EVC_SEI_NUT, 3),
      OtherPacket(EVC_FD_NUT, BigPayload),
      OtherPacket(EVC_APS_NUT, HugePayload) }

\* Streams for the parser.  BaselineStream: SPS, PPS and two P slices, two
\* AUs in the BASELINE profile.  MainStream: SPS (MAIN, POC signalled), PPS,
\* an IDR slice and a non-IDR slice with another POC, two AUs.
\* ForbiddenStream: a unit whose header has forbidden_zero_bit set, between
\* a PPS and a slice.
BaselineStream ==
    SpsPacket(0, 0, 1, 0, 0, 0, 0, 2) \o PpsPacket(0, 0)
    \o SlicePacket(EVC_NOIDR_NUT, 0, 0, EVC_SLICE_TYPE_P, 0)
    \o SlicePacket(EVC_NOIDR_NUT, 0, 0, EVC_SLICE_TYPE_P, 0)

MainStream ==
    SpsPacket(0, 1, 1, 0, 0, 1, 0, 2) \o PpsPacket(0, 0)
    \o SlicePacket(EVC_IDR_NUT, 0, 0, EVC_SLICE_TYPE_I, 0)
    \o SlicePacket(EVC_NOIDR_NUT, 0, 0, EVC_SLICE_TYPE_P, 2)

ForbiddenPacket == Framed(<<128 + (EVC_NOIDR_NUT + 1) * 2, 0, 160>>)

ForbiddenStream ==
    SpsPacket(0, 0, 1, 0, 0, 0, 0, 2) \o PpsPacket(0, 0)
    \o ForbiddenPacket
    \o SlicePacket(EVC_NOIDR_NUT, 0, 0, EVC_SLICE_TYPE_P, 0)

WellFormedStreams == {BaselineStream, MainStream}

ParserStreams == WellFormedStreams \cup {ForbiddenStream}

MaxChunk == 6

\* Files for the demuxer: up to MaxNals units, in any order, out of two
\* SPSs, a PPS, an IDR and a non-IDR slice and a unit with
\* forbidden_zero_bit set
MaxNals == 3

DemuxUnits ==
    { SpsPacket(0, 0, 1, 0, 0, 0, 0, 2), SpsPacket(0, 1, 1, 0, 0, 1, 0, 2),
      PpsPacket(0, 0),
      SlicePacket(EVC_IDR_NUT, 0, 0, EVC_SLICE_TYPE_I, 0),
      SlicePacket(EVC_NOIDR_NUT, 0, 0, EVC_SLICE_TYPE_P, 2),
      ForbiddenPacket }

DemuxStreams ==
    UNION { { Concat(units) : units \in [1..n -> DemuxUnits] } : n \in 1..MaxNals }

ChunkSizes == 1..MaxChunk

\* ------------------------------------------------------------------------
\* State
\* ------------------------------------------------------------------------
VARIABLES
    mc,         \* EVCMergeContext of the bitstream filter
    mc_status,  \* "run"; "oob" / "hang" once a call ran into undefined
                \* behaviour or never returned
    mc_last,    \* the last evc_frame_merge_filter call: packet, ret, out
    mc_acc,     \* the packets appended to the AU buffer since the last AU
    mc_calls,   \* number of calls made
    ps_stream,  \* the length-prefixed stream the parser's caller reads
    ps,         \* per feeder of the parser: its context, status, position
                \* in the stream, the AUs output so far and the last call
    dm_stream,  \* the file the demuxer reads
    dm,         \* the demuxer: its context, status, file offset and the
                \* last evc_read_packet call
    mx_data,    \* the extradata handed to the evcC writer
    mx,         \* the ff_isom_write_evcc call: status, value returned, bytes
                \* written
    gl,         \* the bit reader at work on a string of Exp-Golomb codes
    pl,         \* what a caller noted of each slice the filter accepted: its
                \* temporal id, the POC state it left and SubGopLength
    xe          \* the libxeve encoder: its context and the last libxeve_encode call

bsf_vars == <<mc, mc_status, mc_last, mc_acc, mc_calls>>

parser_vars == <<ps_stream, ps>>

demux_vars == <<dm_stream, dm>>

mux_vars == <<mx_data, mx>>

golomb_vars == <<gl>>

note_vars == <<pl>>

enc_vars == <<xe>>

vars == <<mc, mc_status, mc_last, mc_acc, mc_calls, ps_stream, ps, dm_stream, dm,
          mx_data, mx, gl, pl, xe>>

NoCall == [pkt |-> <<>>, ret |-> 0, out |-> <<>>]

BsfInit ==
    /\ mc = InitMergeContext
    /\ mc_status = "run"
    /\ mc_last = NoCall
    /\ mc_acc = <<>>
    /\ mc_calls = 0

\* The effect of an evc_frame_merge_filter call that returned r
BsfReturn(pkt, r) ==
    /\ mc' = r.ctx
    /\ mc_status' = IF r.oob THEN "oob" ELSE IF r.hang THEN "hang" ELSE "run"
    /\ mc_last' = [pkt |-> pkt, ret |-> r.ret, out |-> r.out]
    /\ mc_acc' = IF r.oob \/ r.hang \/ r.ret \notin {0, AVERROR_EAGAIN} THEN mc_acc
                 ELSE IF r.ret = 0 THEN <<>>
                 ELSE Append(mc_acc, pkt)

\* One call of evc_frame_merge_filter with input packet pkt, in a run of
\* at most limit calls
BsfFilter(pkt, junk, limit) ==
    /\ mc_status = "run"
    /\ mc_calls < limit
    /\ BsfReturn(pkt, evc_frame_merge_filter(mc, pkt, junk))
    /\ mc_calls' = mc_calls + 1
    /\ UNCHANGED <<parser_vars, demux_vars, mux_vars, golomb_vars, note_vars, enc_vars>>

\* A flush of the filter (av_bsf_flush) after some call.  mc_last then shows
\* that no packet was given since.
BsfFlush ==
    /\ mc_status = "run"
    /\ mc_last # NoCall
    /\ mc' = evc_frame_merge_flush(mc)
    /\ mc_last' = NoCall
    /\ UNCHANGED <<mc_status, mc_acc, mc_calls>>
    /\ UNCHANGED <<parser_vars, demux_vars, mux_vars, golomb_vars, note_vars, enc_vars>>

\* No libxeve_encode call yet
NoEncode == [frame |-> <<>>, ret |-> 0, pushed |-> <<>>, encoded |-> FALSE,
             got_packet |-> 0]

\* The encoder opened by libxeve_init
EncInit(pix_fmt, bigendian) ==
    xe = [ctx |-> libxeve_init(pix_fmt, bigendian), calls |-> 0, last |-> NoEncode]

\* An encoder that is opened and not used
EncIdle == EncInit("yuv420p", FALSE)

\* One call of libxeve_encode with the frame (or none) and the outcomes eng
\* of the engine calls, in a run of at most limit calls
EncEncode(frame, eng, limit) ==
    /\ xe.calls < limit
    /\ LET r == libxeve_encode(xe.ctx, frame, eng)
       IN  xe' = [ctx |-> r.ctx, calls |-> xe.calls + 1,
                  last |-> [frame |-> frame, ret |-> r.ret, pushed |-> r.pushed,
                            encoded |-> r.encoded, got_packet |-> r.got_packet]]
    /\ UNCHANGED <<bsf_vars, parser_vars, demux_vars, mux_vars, golomb_vars, note_vars>>

\* Nothing noted yet
NoteInit == pl = <<>>

\* What the caller notes of the slice in pkt that the call accepted
SliceNote(pkt, ctx) ==
    [nalu_type |-> ff_evc_get_nalu_type(SubSeq(pkt, EVC_NALU_LENGTH_PREFIX_SIZE + 1, Len(pkt))),
     tid  |-> ff_evc_get_temporal_id(SubSeq(pkt, EVC_NALU_LENGTH_PREFIX_SIZE + 1, Len(pkt))),
     poc  |-> ctx.pc.poc,
     SubGopLength |->
         Pow2(ctx.pc.sps[ctx.pc.slice_header[
                  get_ue_golomb(init_get_bits8(
                      SubSeq(pkt, EVC_NALU_LENGTH_PREFIX_SIZE + EVC_NALU_HEADER_SIZE + 1,
                             Len(pkt)))).v].slice_pic_parameter_set_id].log2_sub_gop_length)]

\* One call of evc_frame_merge_filter by a caller that notes, for every slice
\* the call accepted, the POC state in the context
BsfFilterNoting(pkt, junk, limit) ==
    /\ mc_status = "run"
    /\ mc_calls < limit
    /\ BsfReturn(pkt, evc_frame_merge_filter(mc, pkt, junk))
    /\ mc_calls' = mc_calls + 1
    /\ pl' = IF /\ mc_status' = "run"
                /\ mc_last'.ret \in {0, AVERROR_EAGAIN}
                /\ mc'.pc.nalu_type \in {EVC_IDR_NUT, EVC_NOIDR_NUT}
             THEN Append(pl, SliceNote(pkt, mc'))
             ELSE pl
    /\ UNCHANGED <<parser_vars, demux_vars, mux_vars, golomb_vars, enc_vars>>

\* Two callers drive a parser of their own over the same stream: "whole"
\* offers all the bytes it has left in each call, "split" a few at a time
Feeders == {"whole", "split"}

NoParse == [chunk |-> <<>>, next |-> 0, ret |-> 0, out |-> <<>>]

\* evc_parser_init on the zero-initialised private context
ParserInit ==
    ps = [w \in Feeders |-> [ctx |-> InitEVCParser, status |-> "run", pos |-> 0,
                             out |-> <<>>, last |-> NoParse]]

\* The effect of an evc_parse call that returned r: the caller takes the AU
\* if one is output and moves on by the number of bytes the parser reports
\* as used (none if negative)
ParserReturn(w, chunk, r) ==
    ps' = [ps EXCEPT ![w] =
              [ctx    |-> r.ctx,
               status |-> IF r.oob THEN "oob" ELSE IF r.hang THEN "hang"
                          ELSE IF Len(chunk) = 0 THEN "eof" ELSE "run",
               pos    |-> IF r.ret < 0 \/ r.oob \/ r.hang THEN @.pos ELSE @.pos + r.ret,
               out    |-> IF Len(r.out) > 0 THEN Append(@.out, r.out) ELSE @.out,
               last   |-> [chunk |-> chunk, next |-> r.next, ret |-> r.ret,
                           out |-> r.out]]]

\* One call of evc_parse by feeder w with at most n bytes of the stream
ParserFeed(w, n) ==
    /\ ps[w].status = "run"
    /\ ps[w].pos < Len(ps_stream)
    /\ n >= 1
    /\ ParserReturn(w, SubSeq(ps_stream, ps[w].pos + 1, Min(ps[w].pos + n, Len(ps_stream))),
                    evc_parse(ps[w].ctx,
                              SubSeq(ps_stream, ps[w].pos + 1,
                                     Min(ps[w].pos + n, Len(ps_stream)))))
    /\ UNCHANGED <<bsf_vars, ps_stream, demux_vars, mux_vars, golomb_vars, note_vars, enc_vars>>

\* The call with an empty chunk that the caller makes at the end of stream
ParserEof(w) ==
    /\ ps[w].status = "run"
    /\ ps[w].pos = Len(ps_stream)
    /\ ParserReturn(w, <<>>, evc_parse(ps[w].ctx, <<>>))
    /\ UNCHANGED <<bsf_vars, ps_stream, demux_vars, mux_vars, golomb_vars, note_vars, enc_vars>>

NoRead == [ret |-> 0, pkt |-> <<>>, parsed |-> <<>>]

\* The demuxer opened on a file, nothing read yet
DemuxInit == dm = [ctx |-> InitDemuxContext, status |-> "run", pos |-> 0, last |-> NoRead]

\* The evcC writer not called yet
MuxInit == mx = [status |-> "ready", ret |-> 0, out |-> <<>>]

\* No extradata to write
MuxIdle == mx_data = <<>> /\ MuxInit

\* The call of ff_isom_write_evcc on the extradata
MuxWrite(ps_array_completeness, id_local) ==
    /\ mx.status = "ready"
    /\ Len(mx_data) > 0
    /\ LET r == ff_isom_write_evcc(mx_data, ps_array_completeness, id_local)
       IN  mx' = [status |-> "done", ret |-> r.ret, out |-> r.out]
    /\ UNCHANGED <<bsf_vars, parser_vars, demux_vars, mx_data, golomb_vars, note_vars, enc_vars>>

\* No bit string to read
GolombIdle == gl = [codes |-> <<>>, gb |-> init_get_bits8(<<>>), vals |-> <<>>]

\* The next syntax element of the string is read with get_ue_golomb or, when
\* it is a signed one, with get_se_golomb
GolombReadUe ==
    /\ Len(gl.vals) < Len(gl.codes)
    /\ ~gl.codes[Len(gl.vals) + 1].signed
    /\ LET r == get_ue_golomb(gl.gb)
       IN  gl' = [gl EXCEPT !.gb = r.gb, !.vals = Append(@, r.v)]
    /\ UNCHANGED <<bsf_vars, parser_vars, demux_vars, mux_vars, note_vars, enc_vars>>

GolombReadSe ==
    /\ Len(gl.vals) < Len(gl.codes)
    /\ gl.codes[Len(gl.vals) + 1].signed
    /\ LET r == get_se_golomb(gl.gb)
       IN  gl' = [gl EXCEPT !.gb = r.gb, !.vals = Append(@, r.v)]
    /\ UNCHANGED <<bsf_vars, parser_vars, demux_vars, mux_vars, note_vars, enc_vars>>

\* One call of evc_read_packet.  The caller stops reading once a call has
\* returned an error.
DemuxRead(junk) ==
    /\ dm.status = "run"
    /\ LET r == evc_read_packet(dm.ctx, dm_stream, dm.pos, junk)
       IN  dm' = [ctx    |-> r.ctx,
                  status |-> IF r.oob THEN "oob" ELSE IF r.hang THEN "hang"
                             ELSE IF r.ret < 0 THEN "end" ELSE "run",
                  pos    |-> r.pos,
                  last   |-> [ret |-> r.ret, pkt |-> r.pkt, parsed |-> r.parsed]]
    /\ UNCHANGED <<bsf_vars, parser_vars, dm_stream, mux_vars, golomb_vars, note_vars, enc_vars>>

Init ==
    /\ BsfInit /\ ps_stream = <<>> /\ ParserInit
    /\ dm_stream = <<>> /\ DemuxInit /\ MuxIdle /\ GolombIdle /\ NoteInit /\ EncIdle

NextExplicit ==
    \E pkt \in ExplicitPackets, junk \in MallocContents : BsfFilter(pkt, junk, MaxCalls)

SpecExplicit == Init /\ [][NextExplicit]_vars

NextImplicit ==
    \E pkt \in ImplicitPackets, junk \in MallocContents : BsfFilter(pkt, junk, MaxCalls)

SpecImplicit == Init /\ [][NextImplicit]_vars

NextBuffer ==
    \E pkt \in BufferPackets, junk \in MallocContents : BsfFilter(pkt, junk, MaxBufCalls)

SpecBuffer == Init /\ [][NextBuffer]_vars

NextStore ==
    \E pkt \in StorePackets, junk \in MallocContents : BsfFilter(pkt, junk, MaxStoreCalls)

SpecStore == Init /\ [][NextStore]_vars

\* The same stream fed whole and one byte at a time
InitFragment ==
    /\ BsfInit /\ ps_stream \in WellFormedStreams /\ ParserInit
    /\ dm_stream = <<>> /\ DemuxInit /\ MuxIdle /\ GolombIdle /\ NoteInit /\ EncIdle

NextFragment ==
    \/ ParserFeed("whole", Len(ps_stream))
    \/ ParserFeed("split", 1)
    \/ ParserEof("whole")
    \/ ParserEof("split")

SpecFragment == InitFragment /\ [][NextFragment]_vars

\* A stream fed in chunks of any of the sizes ChunkSizes
InitChunks ==
    /\ BsfInit /\ ps_stream \in ParserStreams /\ ParserInit
    /\ dm_stream = <<>> /\ DemuxInit /\ MuxIdle /\ GolombIdle /\ NoteInit /\ EncIdle

NextChunks ==
    \/ \E n \in ChunkSizes : ParserFeed("split", n)
    \/ ParserFeed("split", Len(ps_stream))
    \/ ParserEof("split")

SpecChunks == InitChunks /\ [][NextChunks]_vars

\* The parser fed whole a stream of up to MaxNals NAL units in any order
InitUnits ==
    /\ BsfInit /\ ps_stream \in DemuxStreams /\ ParserInit
    /\ dm_stream = <<>> /\ DemuxInit /\ MuxIdle /\ GolombIdle /\ NoteInit /\ EncIdle

NextUnits ==
    \/ ParserFeed("whole", Len(ps_stream))
    \/ ParserEof("whole")

SpecUnits == InitUnits /\ [][NextUnits]_vars

\* The demuxer reading a file of up to MaxNals NAL units
InitDemux ==
    /\ BsfInit /\ ps_stream = <<>> /\ ParserInit
    /\ dm_stream \in DemuxStreams /\ DemuxInit /\ MuxIdle /\ GolombIdle /\ NoteInit /\ EncIdle

NextDemux == \E junk \in MallocContents : DemuxRead(junk)

SpecDemux == InitDemux /\ [][NextDemux]_vars

\* ------------------------------------------------------------------------
\* Properties of the bitstream filter
\* ------------------------------------------------------------------------
\* The NAL unit type and temporal id written in the header of packet pkt
HeaderType(pkt) == ((pkt[EVC_NALU_LENGTH_PREFIX_SIZE + 1] \div 2) % 64) - 1

HeaderTid(pkt) ==
    ((pkt[EVC_NALU_LENGTH_PREFIX_SIZE + 1] * 256
      + pkt[EVC_NALU_LENGTH_PREFIX_SIZE + 2]) \div 64) % 8

\* The last call returned 0 (an AU was output) or EAGAIN (packet buffered)
Returned ==
    mc_calls > 0 /\ mc_status = "run" /\ mc_last.ret \in {0, AVERROR_EAGAIN}

\* C2: a call that accepted its NAL unit ends an AU exactly when the
\* profile is BASELINE and the unit is an IDR or non-IDR slice, or the
\* profile is MAIN and the unit is IDR, or the profile is MAIN, the unit is
\* a non-IDR slice and PicOrderCntVal # prevPicOrderCntVal; SPS, PPS, SEI
\* and the other non-slice units never end an AU.
C2_AuEndTruthTable ==
    Returned =>
        LET type == HeaderType(mc_last.pkt)
            poc  == mc.pc.poc
        IN  (mc_last.ret = 0 /\ mc_last.out # <<>>)
            <=> \/ /\ mc.profile = FF_PROFILE_EVC_BASELINE
                   /\ type \in {EVC_IDR_NUT, EVC_NOIDR_NUT}
                \/ /\ mc.profile = FF_PROFILE_EVC_MAIN
                   /\ type = EVC_IDR_NUT
                \/ /\ mc.profile = FF_PROFILE_EVC_MAIN
                   /\ type = EVC_NOIDR_NUT
                   /\ poc.PicOrderCntVal # poc.prevPicOrderCntVal

\* MAIN profile, a non-IDR slice whose POC equals the previous one: buffered
C2_Witness ==
    /\ Returned
    /\ mc.profile = FF_PROFILE_EVC_MAIN
    /\ HeaderType(mc_last.pkt) = EVC_NOIDR_NUT
    /\ mc.pc.poc.PicOrderCntVal = mc.pc.poc.prevPicOrderCntVal
    /\ mc_last.ret = AVERROR_EAGAIN

\* C3: explicit branch, non-IDR slice.  With max_lsb, prev_lsb and prev_msb
\* taken from the POC before the call, msb is prev_msb + max_lsb when
\* poc_lsb < prev_lsb and prev_lsb - poc_lsb >= max_lsb/2, prev_msb - max_lsb
\* when poc_lsb > prev_lsb and poc_lsb - prev_lsb > max_lsb/2, else prev_msb;
\* the new PicOrderCntVal is msb + poc_lsb and prevPicOrderCntVal the old
\* PicOrderCntVal; poc_lsb = prev_lsb - max_lsb/2 adds max_lsb and
\* poc_lsb = prev_lsb + max_lsb/2 leaves msb unchanged.
C3_ExplicitPoc ==
    [][ ( /\ mc_calls' = mc_calls + 1
          /\ mc_status' = "run"
          /\ mc_last'.ret \in {0, AVERROR_EAGAIN}
          /\ HeaderType(mc_last'.pkt) = EVC_NOIDR_NUT
          /\ mc.pc.sps[0].sps_pocs_flag = 1 )
        => LET max_lsb  == Pow2(mc.pc.sps[0].log2_max_pic_order_cnt_lsb_minus4 + 4)
               old      == mc.pc.poc.PicOrderCntVal
               prev_lsb == old % max_lsb
               prev_msb == old - prev_lsb
               poc_lsb  == mc'.pc.slice_header[0].slice_pic_order_cnt_lsb
               msb      == IF poc_lsb < prev_lsb /\ prev_lsb - poc_lsb >= max_lsb \div 2
                           THEN prev_msb + max_lsb
                           ELSE IF poc_lsb > prev_lsb
                                   /\ poc_lsb - prev_lsb > max_lsb \div 2
                           THEN prev_msb - max_lsb
                           ELSE prev_msb
           IN  /\ mc'.pc.poc.PicOrderCntVal = msb + poc_lsb
               /\ mc'.pc.poc.prevPicOrderCntVal = old
               /\ poc_lsb = prev_lsb - max_lsb \div 2
                      => mc'.pc.poc.PicOrderCntVal = prev_msb + max_lsb + poc_lsb
               /\ poc_lsb = prev_lsb + max_lsb \div 2
                      => mc'.pc.poc.PicOrderCntVal = prev_msb + poc_lsb
      ]_vars

\* A non-IDR slice with poc_lsb 0 after POC 8 (max_lsb 16): the boundary
\* poc_lsb = prev_lsb - max_lsb/2, the POC becomes 16
C3_Witness ==
    /\ Returned
    /\ HeaderType(mc_last.pkt) = EVC_NOIDR_NUT
    /\ mc.pc.sps[0].sps_pocs_flag = 1
    /\ mc.pc.poc.prevPicOrderCntVal = 8
    /\ mc.pc.poc.PicOrderCntVal = 16

\* The next offset after DocOffset d (mod sub_gop) whose expected temporal
\* id (0 for offset 0, otherwise 1 + floor(log2(offset))) is tid
NextDocOffset(d, tid, sub_gop) ==
    LET at(j) == (d + 1 + j) % sub_gop
        fits(o) == tid = (IF o = 0 THEN 0 ELSE 1 + FloorLog2(o))
        j == CHOOSE j \in 0..(sub_gop - 1) :
                 fits(at(j)) /\ \A i \in 0..(j - 1) : ~fits(at(i))
    IN  at(j)

\* A call that accepted a non-IDR slice at temporal id tid and found the
\* POC state pre leaves the POC value val
PocStep(pre, tid, val) ==
    ( /\ mc_calls' = mc_calls + 1
      /\ mc_status' = "run"
      /\ mc_last'.ret \in {0, AVERROR_EAGAIN}
      /\ HeaderType(mc_last'.pkt) = EVC_NOIDR_NUT
      /\ HeaderTid(mc_last'.pkt) = tid
      /\ mc.pc.poc = pre )
    => mc'.pc.poc.PicOrderCntVal = val

\* C4: implicit branch with sub_gop = 2^log2_sub_gop_length.  An IDR sets
\* PicOrderCntVal = 0 and DocOffset = -1; a non-IDR slice at temporal id 0
\* sets PicOrderCntVal = prevPicOrderCntVal + sub_gop, DocOffset = 0 and
\* prevPicOrderCntVal = PicOrderCntVal; a non-IDR slice at temporal id > 0
\* advances DocOffset to the next offset whose expected temporal id is the
\* slice's and sets PicOrderCntVal =
\* prevPicOrderCntVal + sub_gop*((2*DocOffset+1)/2^temporal_id - 2).
\* With sub_gop = 4 and a zero PocState, temporal ids 0, 1, 2, 2 give the
\* POCs 4, 2, 1, 3.
C4_ImplicitPoc ==
    [][ /\ ( /\ mc_calls' = mc_calls + 1
             /\ mc_status' = "run"
             /\ mc_last'.ret \in {0, AVERROR_EAGAIN}
             /\ HeaderType(mc_last'.pkt) \in {EVC_IDR_NUT, EVC_NOIDR_NUT}
             /\ mc.pc.sps[0].sps_pocs_flag = 0 )
           => LET sub_gop == Pow2(mc.pc.sps[0].log2_sub_gop_length)
                  tid     == HeaderTid(mc_last'.pkt)
                  pre     == mc.pc.poc
                  post    == mc'.pc.poc
              IN  IF HeaderType(mc_last'.pkt) = EVC_IDR_NUT
                  THEN post.PicOrderCntVal = 0 /\ post.DocOffset = -1
                  ELSE IF tid = 0
                  THEN /\ post.PicOrderCntVal = pre.prevPicOrderCntVal + sub_gop
                       /\ post.DocOffset = 0
                       /\ post.prevPicOrderCntVal = post.PicOrderCntVal
                  ELSE /\ post.DocOffset = NextDocOffset(pre.DocOffset, tid, sub_gop)
                       /\ post.PicOrderCntVal * Pow2(tid)
                              = post.prevPicOrderCntVal * Pow2(tid)
                                + sub_gop * (2 * post.DocOffset + 1)
                                - 2 * sub_gop * Pow2(tid)
        /\ ( /\ 0 \in DOMAIN mc.pc.sps
             /\ mc.pc.sps[0].sps_pocs_flag = 0
             /\ mc.pc.sps[0].log2_sub_gop_length = 2 )
           => /\ PocStep(ZeroPoc, 0, 4)
              /\ PocStep([PicOrderCntVal |-> 4, prevPicOrderCntVal |-> 4,
                          DocOffset |-> 0], 1, 2)
              /\ PocStep([PicOrderCntVal |-> 2, prevPicOrderCntVal |-> 4,
                          DocOffset |-> 1], 2, 1)
              /\ PocStep([PicOrderCntVal |-> 1, prevPicOrderCntVal |-> 4,
                          DocOffset |-> 2], 2, 3)
      ]_vars

\* The end of the example: after temporal ids 0, 1, 2, 2 from the zero
\* PocState the POC is 3 at DocOffset 3
C4_Witness ==
    /\ Returned
    /\ HeaderType(mc_last.pkt) = EVC_NOIDR_NUT
    /\ HeaderTid(mc_last.pkt) = 2
    /\ mc.pc.sps[0].sps_pocs_flag = 0
    /\ mc.pc.poc = [PicOrderCntVal |-> 3, prevPicOrderCntVal |-> 4, DocOffset |-> 3]

\* A call that output an AU: the AU is the packets accepted (EAGAIN) since
\* the last output followed by this call's packet, which is a slice; the
\* buffer is then empty and keeps the capacity the append left it with:
\* the old capacity if the AU fitted, never less.
AuEmission ==
    ( /\ mc_calls' = mc_calls + 1
      /\ mc_status' = "run"
      /\ mc_last'.ret = 0 )
    => /\ mc_last'.out = Concat(mc_acc) \o mc_last'.pkt
       /\ HeaderType(mc_last'.pkt) \in {EVC_IDR_NUT, EVC_NOIDR_NUT}
       /\ mc'.au_buffer.data_size = 0
       /\ mc'.au_buffer.capacity >= mc.au_buffer.capacity
       /\ mc'.au_buffer.capacity >= Len(mc_last'.out)
       /\ Len(mc_last'.out) <= mc.au_buffer.capacity
              => mc'.au_buffer.capacity = mc.au_buffer.capacity

BaselineSps == SpsPacket(0, 0, 1, 0, 0, 0, 0, 2)
Pps0 == PpsPacket(0, 0)
PSlice == SlicePacket(EVC_NOIDR_NUT, 0, 0, EVC_SLICE_TYPE_P, 0)

MaxDoublings == 8

\* C8: after every call the first data_size bytes of the AU buffer are the
\* packets appended since the last emission, in order and unaltered,
\* data_size <= capacity, the capacity is 1024 * 2^k and not smaller than
\* before the call.
C8_BufferGrowth ==
    [][ mc_status' = "run"
        => /\ mc'.au_buffer.data = Concat(mc_acc')
           /\ mc'.au_buffer.data_size = Len(Concat(mc_acc'))
           /\ mc'.au_buffer.data_size <= mc'.au_buffer.capacity
           /\ \E k \in 0..MaxDoublings :
                  mc'.au_buffer.capacity = INIT_AU_BUF_CAPACITY * Pow2(k)
           /\ mc'.au_buffer.capacity >= mc.au_buffer.capacity
      ]_vars

\* Two appends, the capacity doubled twice, the first packet still in place
C8_Witness ==
    /\ mc_status = "run"
    /\ mc.au_buffer.capacity = 4 * INIT_AU_BUF_CAPACITY
    /\ Len(mc_acc) = 2
    /\ mc.au_buffer.data_size > 2 * INIT_AU_BUF_CAPACITY
    /\ SubSeq(mc.au_buffer.data, 1, Len(mc_acc[1])) = mc_acc[1]

\* ------------------------------------------------------------------------
\* Properties of the parser
\* ------------------------------------------------------------------------
\* The offsets of stream at which a length-prefixed unit starts, from p on
RECURSIVE UnitStarts(_, _)
UnitStarts(stream, p) ==
    IF p + EVC_NALU_LENGTH_PREFIX_SIZE > Len(stream) THEN {}
    ELSE {p} \cup UnitStarts(stream,
                             p + EVC_NALU_LENGTH_PREFIX_SIZE
                               + read_nal_unit_length(SubSeq(stream, p + 1, p + 4)))

\* The NAL unit (without its prefix) that starts at offset p of stream
UnitAt(stream, p) ==
    SubSeq(stream, p + EVC_NALU_LENGTH_PREFIX_SIZE + 1,
           p + EVC_NALU_LENGTH_PREFIX_SIZE
             + read_nal_unit_length(SubSeq(stream, p + 1, p + 4)))

UnitEnd(stream, p) == p + EVC_NALU_LENGTH_PREFIX_SIZE + Len(UnitAt(stream, p))

\* The NAL units of stream that end at or before offset pos, in order
RECURSIVE UnitsBefore(_, _, _)
UnitsBefore(stream, p, pos) ==
    IF p \notin UnitStarts(stream, p) \/ UnitEnd(stream, p) > pos THEN <<>>
    ELSE <<UnitAt(stream, p)>> \o UnitsBefore(stream, UnitEnd(stream, p), pos)

\* Both feeders have made their call at the end of the stream
BothFinished == \A w \in Feeders : ps[w].status = "eof"

\* C1: once a well-formed stream has been fed completely, the AUs output
\* for 1-byte chunks are the AUs output for the whole stream, byte for byte
\* and in order.
C1_FragmentationInvariant ==
    BothFinished => ps["split"].out = ps["whole"].out

\* The whole-fed parser has output the stream's two AUs while the
\* byte-fed one has output the stream as a single AU at the end
C1_Diverged ==
    /\ BothFinished
    /\ Len(ps["whole"].out) = 2
    /\ ps["split"].out = <<ps_stream>>

\* C5: whenever evc_find_frame_end has returned, the NAL units handed to
\* parse_nal_unit are exactly the units of the stream that the bytes
\* consumed so far complete, each once and in stream order, whatever the
\* chunk sizes were (a chunk that supplies exactly the owed bytes included).
C5_ResumeHandsEachUnitOnce ==
    ps["split"].status = "run" =>
        ps["split"].ctx.handed = UnitsBefore(ps_stream, 0, ps["split"].pos)

\* A call supplied exactly the bytes owed for the payload of the first unit
\* and the unit was not handed to parse_nal_unit
C5_ExactChunkDropped ==
    /\ ps["split"].status = "run"
    /\ ps["split"].pos = UnitEnd(ps_stream, 0)
    /\ ps["split"].last.next = END_NOT_FOUND
    /\ ps["split"].ctx.to_read = 0
    /\ ps["split"].ctx.incomplete_nalu_read = 1
    /\ ps["split"].ctx.handed = <<>>

\* C6: between calls, to_read is 0 exactly when the bytes consumed so far
\* end at a NAL unit boundary (the start of a unit or the end of the stream).
C6_ToReadZeroIffBoundary ==
    ps["split"].status = "run" =>
        (ps["split"].ctx.to_read = 0
            <=> ps["split"].pos \in UnitStarts(ps_stream, 0) \cup {Len(ps_stream)})

\* to_read is 0 with the bytes consumed ending inside a unit
C6_ZeroInsideUnit ==
    /\ ps["split"].status = "run"
    /\ ps["split"].ctx.to_read = 0
    /\ ps["split"].pos > EVC_NALU_LENGTH_PREFIX_SIZE
    /\ ps["split"].pos < UnitEnd(ps_stream, 0)

\* The unit at the feeder's position has forbidden_zero_bit set and the
\* chunk of n bytes holds all of it
ForbiddenUnitDue(w, n) ==
    /\ ps[w].status = "run"
    /\ ps[w].ctx.to_read = 0
    /\ ps[w].pos \in UnitStarts(ps_stream, 0)
    /\ Len(UnitAt(ps_stream, ps[w].pos)) >= EVC_NALU_HEADER_SIZE
    /\ UnitAt(ps_stream, ps[w].pos)[1] >= 128
    /\ ps[w].pos + n >= UnitEnd(ps_stream, ps[w].pos)

\* The state C10 speaks of: NAL type, POC, parameter sets and slice
\* headers, the retained bytes, to_read and bytes_read
ParserState(ctx) == <<ctx.pc, ctx.buffer, ctx.to_read, ctx.bytes_read>>

\* C10: a call of the parser that meets a NAL unit with forbidden_zero_bit
\* set finds no frame end but InvalidData, outputs no AU and leaves the
\* parser state (NAL type, POC, parameter sets, retained bytes, to_read,
\* bytes_read) as it was before the call.
C10_ForbiddenBitLeavesState ==
    [][\A n \in ChunkSizes \cup {Len(ps_stream)} :
          (ForbiddenUnitDue("split", n) /\ ParserFeed("split", n))
              => /\ ps'["split"].last.next = AVERROR_INVALIDDATA
                 /\ ps'["split"].out = ps["split"].out
                 /\ ParserState(ps'["split"].ctx) = ParserState(ps["split"].ctx)]_vars

\* The call on the forbidden unit failed with nalu_size set to the unit's
\* length and bytes_read moved over its length prefix
C10_PrefixCounted ==
    /\ ps["split"].last.next = AVERROR_INVALIDDATA
    /\ Len(ps["split"].last.chunk) >= Len(ForbiddenPacket)
    /\ SubSeq(ps["split"].last.chunk, 1, Len(ForbiddenPacket)) = ForbiddenPacket
    /\ ps["split"].ctx.bytes_read >= EVC_NALU_LENGTH_PREFIX_SIZE
    /\ ps["split"].ctx.nalu_size = Len(UnitAt(ForbiddenPacket, 0))
    /\ Len(ps["split"].ctx.handed) > 0
    /\ ps["split"].ctx.handed[Len(ps["split"].ctx.handed)]
           = UnitAt(ForbiddenPacket, 0)

\* ------------------------------------------------------------------------
\* Properties of the demuxer
\* ------------------------------------------------------------------------
\* Some parse_nal_unit call of the last evc_read_packet call failed
ParseFailedInLastRead ==
    \E i \in 1..Len(dm.last.parsed) : dm.last.parsed[i] # 0

\* C9: a call of evc_read_packet in which the parse of a NAL unit failed
\* returns an error and gives out no AU: no AU boundary is decided and no
\* AU is emitted on a NAL unit whose parse failed.
C9_ParseFailureReported ==
    (dm.status \in {"run", "end"} /\ ParseFailedInLastRead)
        => (dm.last.ret < 0 /\ dm.last.pkt = <<>>)

\* The file holds one IDR slice and no parameter set: the slice header
\* parse failed, and the call returned the slice as an AU with success
C9_SliceWithoutParameterSets ==
    /\ dm_stream = SlicePacket(EVC_IDR_NUT, 0, 0, EVC_SLICE_TYPE_I, 0)
    /\ dm.status = "run"
    /\ dm.last.parsed = <<AVERROR_INVALIDDATA>>
    /\ dm.last.ret > 0
    /\ dm.last.pkt = dm_stream

\* A unit with forbidden_zero_bit set follows a slice of the BASELINE
\* profile: its parse failed before the NAL type was taken, the type of the
\* slice decided, and the unit was given out as an AU
C9_StaleNalType ==
    /\ dm.status = "run"
    /\ dm.last.parsed = <<AVERROR_INVALIDDATA>>
    /\ dm.last.pkt = ForbiddenPacket
    /\ dm.pos > Len(ForbiddenPacket)

\* ------------------------------------------------------------------------
\* Properties of the parameter set store
\* ------------------------------------------------------------------------
\* The NAL unit type written in the header of the NAL unit nal
UnitType(nal) == ((nal[1] \div 2) % 64) - 1

IsSliceUnit(nal) ==
    Len(nal) >= EVC_NALU_HEADER_SIZE /\ nal[1] < 128
    /\ UnitType(nal) \in {EVC_IDR_NUT, EVC_NOIDR_NUT}

\* Unit i of units is a slice, and no PPS or no SPS comes before it.  (All
\* parameter sets and slices of DemuxUnits carry id 0.)
SliceWithoutParameterSet(units, i) ==
    /\ IsSliceUnit(units[i])
    /\ \/ \A j \in 1..(i - 1) : UnitType(units[j]) # EVC_PPS_NUT
       \/ \A j \in 1..(i - 1) : UnitType(units[j]) # EVC_SPS_NUT

\* C11: a slice whose PPS or SPS was never parsed makes parse_slice_header
\* fail with InvalidData: such a slice is the last unit the parser takes,
\* the call ends with AVERROR_INVALIDDATA, and no POC is derived from it.
C11_SliceNeedsParameterSets ==
    \A i \in 1..Len(ps["whole"].ctx.handed) :
        SliceWithoutParameterSet(ps["whole"].ctx.handed, i)
            => /\ i = Len(ps["whole"].ctx.handed)
               /\ ps["whole"].last.next = AVERROR_INVALIDDATA
               /\ ps["whole"].ctx.pc.poc = ZeroPoc

\* The stream is one IDR slice: the parser parsed it against the zero
\* slots, derived a POC and reported the slice as an AU
C11_LoneSliceParsed ==
    /\ ps_stream = SlicePacket(EVC_IDR_NUT, 0, 0, EVC_SLICE_TYPE_I, 0)
    /\ Len(ps["whole"].ctx.handed) = 1
    /\ ps["whole"].last.next = Len(ps_stream)
    /\ ps["whole"].ctx.pc.poc # ZeroPoc
    /\ ps["whole"].out = <<ps_stream>>

\* The payload of the packet pkt, behind length prefix and NAL unit header
PacketPayload(pkt) ==
    SubSeq(pkt, EVC_NALU_LENGTH_PREFIX_SIZE + EVC_NALU_HEADER_SIZE + 1, Len(pkt))

\* The first and the second Exp-Golomb element of the payload of pkt: the
\* id of a parameter set or the pps id of a slice, and the sps id of a PPS
PacketId(pkt) == get_ue_golomb(init_get_bits8(PacketPayload(pkt))).v

PacketSpsId(pkt) ==
    get_ue_golomb(get_ue_golomb(init_get_bits8(PacketPayload(pkt))).gb).v

\* The step is a call of evc_frame_merge_filter on a packet of NAL type t
FilterCallOn(t) ==
    /\ mc_calls' = mc_calls + 1
    /\ Len(mc_last'.pkt) >= EVC_NALU_LENGTH_PREFIX_SIZE + EVC_NALU_HEADER_SIZE
    /\ mc_last'.pkt[EVC_NALU_LENGTH_PREFIX_SIZE + 1] < 128
    /\ HeaderType(mc_last'.pkt) = t

\* C12: a PPS whose pps_seq_parameter_set_id names an SPS that is not
\* stored is refused: the call fails with InvalidData and stores no PPS.
C12_PpsNeedsSps ==
    [][(FilterCallOn(EVC_PPS_NUT)
        /\ PacketSpsId(mc_last'.pkt) \notin DOMAIN mc.pc.sps)
          => /\ mc_last'.ret = AVERROR_INVALIDDATA
             /\ mc'.pc.pps = mc.pc.pps]_vars

\* A PPS that names SPS 0 was accepted and stored with no SPS stored
C12_PpsStoredWithoutSps ==
    /\ mc_status = "run"
    /\ mc_last.pkt = PpsPacket(0, 0)
    /\ mc_last.ret = AVERROR_EAGAIN
    /\ DOMAIN mc.pc.sps = {}
    /\ 0 \in DOMAIN mc.pc.pps

\* The SPS that the PPS of the slice packet pkt names, in the store pc
SpsOfPps(pc, pkt) == pc.sps[pc.pps[PacketId(pkt)].pps_seq_parameter_set_id]

\* C13: a slice that is accepted was parsed, and its POC derived, with the
\* SPS named by its PPS: sps[pps[slice_pic_parameter_set_id].
\* pps_seq_parameter_set_id] is stored, and the POC after the call is the
\* one derived with that SPS from the slice header the call stored.
C13_SliceUsesSpsOfPps ==
    [][((FilterCallOn(EVC_NOIDR_NUT) \/ FilterCallOn(EVC_IDR_NUT))
        /\ mc_status' = "run" /\ mc_last'.ret \in {0, AVERROR_EAGAIN})
          => /\ PacketId(mc_last'.pkt) \in DOMAIN mc.pc.pps
             /\ mc.pc.pps[PacketId(mc_last'.pkt)].pps_seq_parameter_set_id
                    \in DOMAIN mc.pc.sps
             /\ mc'.pc.poc =
                    poc_derivation(mc.pc.poc, SpsOfPps(mc.pc, mc_last'.pkt),
                                   mc'.pc.slice_header[PacketId(mc_last'.pkt)],
                                   HeaderType(mc_last'.pkt),
                                   HeaderTid(mc_last'.pkt)).poc]_vars

\* With SPS 0 (POC from the temporal id), SPS 1 (POC signalled) and PPS 0
\* naming SPS 1 stored, a slice of PPS 0 that carries poc lsb 5 got POC 4,
\* the value of the derivation from the temporal id under SPS 0
C13_PocFromSpsOfSameId ==
    /\ mc_status = "run"
    /\ mc_calls = 4
    /\ mc_last.pkt = SlicePacket(EVC_NOIDR_NUT, 0, 0, EVC_SLICE_TYPE_P, 5)
    /\ mc_last.ret \in {0, AVERROR_EAGAIN}
    /\ DOMAIN mc.pc.sps = {0, 1}
    /\ mc.pc.sps[1].sps_pocs_flag = 1
    /\ mc.pc.pps[0].pps_seq_parameter_set_id = 1
    /\ mc.pc.poc.PicOrderCntVal = 4

\* With SPS 0 and PPS 1 naming SPS 0 stored, a slice of PPS 1 was refused
C13_SliceOfValidPpsRefused ==
    /\ mc_calls = 3
    /\ mc_last.pkt = SlicePacket(EVC_NOIDR_NUT, 0, 1, EVC_SLICE_TYPE_P, 5)
    /\ mc_last.ret = AVERROR_INVALIDDATA
    /\ DOMAIN mc.pc.sps = {0}
    /\ 1 \in DOMAIN mc.pc.pps
    /\ mc.pc.pps[1].pps_seq_parameter_set_id = 0

\* C14: an SPS with id >= EVC_MAX_SPS_COUNT and a PPS with id >=
\* EVC_MAX_PPS_COUNT are refused with InvalidData, and the call touches no
\* slot outside the tables: it returns normally and leaves the stored
\* parameter sets as they were.
C14_IdsOutsideTablesRefused ==
    [][((FilterCallOn(EVC_SPS_NUT) /\ PacketId(mc_last'.pkt) >= EVC_MAX_SPS_COUNT)
        \/ (FilterCallOn(EVC_PPS_NUT) /\ PacketId(mc_last'.pkt) >= EVC_MAX_PPS_COUNT))
          => /\ mc_status' = "run"
             /\ mc_last'.ret = AVERROR_INVALIDDATA
             /\ mc'.pc.sps = mc.pc.sps
             /\ mc'.pc.pps = mc.pc.pps]_vars

\* The call on a PPS with id EVC_MAX_PPS_COUNT went past the id test and
\* indexed the table behind its last slot
C14_PpsIdAtTableSize ==
    /\ mc_status = "oob"
    /\ mc_last.pkt = PpsPacket(EVC_MAX_PPS_COUNT, 0)

\* The ids above it, and SPS id EVC_MAX_SPS_COUNT, were refused
C14_IdsBeyondRefused ==
    /\ mc_status = "run"
    /\ mc_last.pkt \in {PpsPacket(EVC_MAX_PPS_COUNT + 1, 0),
                        SpsPacket(EVC_MAX_SPS_COUNT, 1, 1, 0, 0, 0, 0, 2)}
    /\ mc_last.ret = AVERROR_INVALIDDATA

\* ------------------------------------------------------------------------
\* The length prefix
\* ------------------------------------------------------------------------
\* Packets for the bitstream filter: shorter than a length prefix, with a
\* prefix of 0, with a prefix whose first byte has its top bit set, and
\* well-formed ones
MaxPrefixCalls == 3

ZeroPrefixed(pkt) ==
    Zeros(EVC_NALU_LENGTH_PREFIX_SIZE)
    \o SubSeq(pkt, EVC_NALU_LENGTH_PREFIX_SIZE + 1, Len(pkt))

PrefixPackets ==
    { <<0>>, <<0, 0, 1>>, <<0, 0, 0>>,
      ZeroPrefixed(SlicePacket(EVC_IDR_NUT, 0, 0, EVC_SLICE_TYPE_I, 0)),
      <<128, 0, 0, 5>> \o SubSeq(OtherPacket(EVC_SEI_NUT, 3), 5, 9),
      SpsPacket(0, 0, 1, 0, 0, 0, 0, 2),
      PpsPacket(0, 0),
      SlicePacket(EVC_IDR_NUT, 0, 0, EVC_SLICE_TYPE_I, 0) }

\* Streams for the parser: a prefix of 0 first, a prefix of 0 behind an SPS,
\* and a stream that ends two bytes into a prefix
PrefixStreams ==
    { ZeroPrefixed(SlicePacket(EVC_IDR_NUT, 0, 0, EVC_SLICE_TYPE_I, 0)),
      SpsPacket(0, 0, 1, 0, 0, 0, 0, 2)
         \o ZeroPrefixed(SlicePacket(EVC_IDR_NUT, 0, 0, EVC_SLICE_TYPE_I, 0)),
      SpsPacket(0, 0, 1, 0, 0, 0, 0, 2) \o PpsPacket(0, 0)
         \o SlicePacket(EVC_IDR_NUT, 0, 0, EVC_SLICE_TYPE_I, 0) \o <<0, 0>> }

\* Chunk sizes: up to a whole prefix, a whole SPS unit, all that is left
MaxPrefixChunk == 4

PrefixChunks ==
    (1..MaxPrefixChunk) \cup {Len(SpsPacket(0, 0, 1, 0, 0, 0, 0, 2)), Len(ps_stream)}

\* A run drives the parser over one of the streams, or, given no stream,
\* the bitstream filter over the packets
InitPrefix ==
    /\ BsfInit /\ ps_stream \in PrefixStreams \cup {<<>>} /\ ParserInit
    /\ dm_stream = <<>> /\ DemuxInit /\ MuxIdle /\ GolombIdle /\ NoteInit /\ EncIdle

NextPrefix ==
    \/ /\ ps_stream = <<>>
       /\ \E pkt \in PrefixPackets, junk \in MallocContents :
             BsfFilter(pkt, junk, MaxPrefixCalls)
    \/ \E n \in PrefixChunks : ParserFeed("split", n)
    \/ ParserEof("split")

SpecPrefix == InitPrefix /\ [][NextPrefix]_vars

\* Byte i of the 4-byte two's complement representation of v
PrefixByte(v, i) == (v \div Pow2(8 * (EVC_NALU_LENGTH_PREFIX_SIZE - i))) % 256

AllZero(bytes) == \A i \in 1..EVC_NALU_LENGTH_PREFIX_SIZE : bytes[i] = 0

\* A call of evc_frame_merge_filter: the length read from a packet of 4
\* bytes or more is the big-endian value of its first 4 bytes, and a packet
\* that is shorter or whose prefix is 0 is refused and changes nothing
FilterReadsPrefix ==
    mc_calls' = mc_calls + 1 =>
        /\ Len(mc_last'.pkt) >= EVC_NALU_LENGTH_PREFIX_SIZE =>
              \A i \in 1..EVC_NALU_LENGTH_PREFIX_SIZE :
                  PrefixByte(ff_evc_read_nal_unit_length(mc_last'.pkt), i) = mc_last'.pkt[i]
        /\ (Len(mc_last'.pkt) < EVC_NALU_LENGTH_PREFIX_SIZE \/ AllZero(mc_last'.pkt)) =>
              /\ mc_last'.ret = AVERROR_INVALIDDATA
              /\ mc_status' = "run"
              /\ mc' = mc

\* A call of evc_parse with a chunk at whose start the parser reads a length
\* prefix (nothing owed from earlier chunks)
ParserCallAtPrefix ==
    /\ ps["split"].status = "run"
    /\ ps'["split"] # ps["split"]
    /\ ps["split"].ctx.to_read = 0
    /\ ps["split"].ctx.nalu_prefix_assembled = 0
    /\ Len(ps'["split"].last.chunk) > 0

\* The call found a prefix of 0 whole at the start of its chunk
ParserZeroPrefix ==
    /\ Len(ps'["split"].last.chunk) >= EVC_NALU_LENGTH_PREFIX_SIZE
    /\ AllZero(ps'["split"].last.chunk)

\* The call was left fewer than 4 bytes for the prefix: it keeps them and
\* asks for the rest
ParserAwaitsPrefix ==
    /\ ps'["split"].last.next = END_NOT_FOUND
    /\ ps'["split"].last.ret = Len(ps'["split"].last.chunk)
    /\ ps'["split"].last.out = <<>>
    /\ ps'["split"].ctx.to_read
          = EVC_NALU_LENGTH_PREFIX_SIZE - Len(ps'["split"].last.chunk)
    /\ ps'["split"].ctx.incomplete_nalu_prefix_read = 1
    /\ ps'["split"].ctx.buffer = ps["split"].ctx.buffer \o ps'["split"].last.chunk

\* C15: the length read is the big-endian value of the first 4 bytes.  The
\* bitstream filter refuses a packet shorter than 4 bytes or with a prefix of
\* 0 with InvalidData; the parser refuses a prefix of 0 with InvalidData,
\* and when fewer than 4 bytes of the chunk are left for the prefix it does
\* not fail but keeps them and returns END_NOT_FOUND with to_read set to
\* the number of prefix bytes missing.
C15_LengthPrefixRead ==
    [][/\ FilterReadsPrefix
       /\ (ParserCallAtPrefix /\ ParserZeroPrefix)
             => ps'["split"].last.next = AVERROR_INVALIDDATA
       /\ (ParserCallAtPrefix
           /\ Len(ps'["split"].last.chunk) < EVC_NALU_LENGTH_PREFIX_SIZE)
             => ParserAwaitsPrefix]_vars

\* C15 as stated: with fewer than 4 bytes available, or a value of 0, the
\* enclosing operation returns InvalidData
C15_ShortOrZeroIsInvalidData ==
    [][/\ FilterReadsPrefix
       /\ (ParserCallAtPrefix
           /\ (Len(ps'["split"].last.chunk) < EVC_NALU_LENGTH_PREFIX_SIZE
               \/ AllZero(ps'["split"].last.chunk)))
             => ps'["split"].last.next = AVERROR_INVALIDDATA]_vars

\* The parser has refused a prefix of 0 that followed an SPS
C15_ZeroPrefixRefused ==
    /\ ps["split"].pos > 0
    /\ Len(ps["split"].last.chunk) > EVC_NALU_LENGTH_PREFIX_SIZE
    /\ AllZero(ps["split"].last.chunk)
    /\ ps["split"].last.next = AVERROR_INVALIDDATA

\* The parser was handed the last two bytes of a stream where a prefix is
\* due, kept them and asked for two more
C15_PrefixAwaited ==
    /\ ps["split"].status = "run"
    /\ ps["split"].pos = Len(ps_stream)
    /\ ps["split"].last.chunk = <<0, 0>>
    /\ ps["split"].last.next = END_NOT_FOUND
    /\ ps["split"].ctx.to_read = 2
    /\ ps["split"].ctx.incomplete_nalu_prefix_read = 1

\* The filter has refused a packet with a prefix of 0 and a packet of three
\* bytes
C15_FilterRefused ==
    /\ mc_calls > 1
    /\ mc_last.ret = AVERROR_INVALIDDATA
    /\ mc_last.pkt = <<0, 0, 1>>

\* ------------------------------------------------------------------------
\* The NAL unit header
\* ------------------------------------------------------------------------
\* Headers for the bitstream filter: forbidden_zero_bit clear and set, NAL
\* unit types at both ends of the range and in use, every bit of the
\* temporal id; one payload byte behind a header, and headers of one byte
MaxHeaderCalls == 1

HeaderByte0 ==
    { 0, 1, 128, 129, 178, 255 }
    \cup { (t + 1) * 2 + b : t \in {EVC_NOIDR_NUT, EVC_IDR_NUT, EVC_SPS_NUT, EVC_PPS_NUT,
                                     EVC_APS_NUT, EVC_FD_NUT, EVC_SEI_NUT,
                                     EVC_UNSPEC_NUT62 - 1, EVC_UNSPEC_NUT62},
                             b \in {0, 1} }

HeaderByte1 == { 0, 64, 191, 255 }

HeaderPackets ==
    { Framed(<<b0, b1, 160>>) : b0 \in HeaderByte0, b1 \in HeaderByte1 }
    \cup { Framed(<<b0>>) : b0 \in HeaderByte0 }

NextHeader ==
    \E pkt \in HeaderPackets, junk \in MallocContents : BsfFilter(pkt, junk, MaxHeaderCalls)

SpecHeader == Init /\ [][NextHeader]_vars

\* The NAL unit of a packet: its bytes behind the length prefix
PacketUnit(pkt) == SubSeq(pkt, EVC_NALU_LENGTH_PREFIX_SIZE + 1, Len(pkt))

ForbiddenBit(byte0) == byte0 \div 128

\* nal_unit_type_plus1 is bits 1..6 of byte 0; the temporal id is the last
\* bit of byte 0 and the first two bits of byte 1
TypePlus1Bits(byte0) == (byte0 % 128) \div 2

TemporalIdBits(byte0, byte1) == (byte0 % 2) * 4 + byte1 \div 64

\* The header of NAL unit nal is one the claim says is rejected
HeaderRejected(nal) ==
    \/ Len(nal) < EVC_NALU_HEADER_SIZE
    \/ ForbiddenBit(nal[1]) = 1
    \/ TypePlus1Bits(nal[1]) - 1 \notin 0..62

\* C16: a NAL unit whose header is shorter than 2 bytes, has the forbidden
\* bit set or a NAL unit type outside 0..62 is rejected with InvalidData and
\* changes nothing; for every other header the type read and stored is
\* ((byte0 >> 1) & 0x3F) - 1 and the temporal id read is
\* (((byte0 << 8) | byte1) >> 6) & 0x7, a value in 0..7.
C16_HeaderFields ==
    [][mc_calls' = mc_calls + 1 =>
          IF HeaderRejected(PacketUnit(mc_last'.pkt))
          THEN /\ mc_last'.ret = AVERROR_INVALIDDATA
               /\ mc' = mc
          ELSE /\ ff_evc_get_nalu_type(PacketUnit(mc_last'.pkt))
                     = TypePlus1Bits(mc_last'.pkt[5]) - 1
               /\ mc'.pc.nalu_type = TypePlus1Bits(mc_last'.pkt[5]) - 1
               /\ ff_evc_get_temporal_id(PacketUnit(mc_last'.pkt))
                     = TemporalIdBits(mc_last'.pkt[5], mc_last'.pkt[6])
               /\ ff_evc_get_temporal_id(PacketUnit(mc_last'.pkt)) \in 0..7]_vars

\* A unit of type 62 with temporal id 7 was accepted
C16_HeaderAccepted ==
    /\ mc_calls = 1
    /\ mc_acc = << Framed(<<(EVC_UNSPEC_NUT62 + 1) * 2 + 1, 255, 160>>) >>
    /\ mc.pc.nalu_type = EVC_UNSPEC_NUT62
    /\ mc_last.ret = AVERROR_EAGAIN

\* Headers of one byte, with the forbidden bit and with nal_unit_type_plus1
\* of 0 were rejected
C16_HeaderRefused ==
    /\ mc_calls = 1
    /\ mc_last.pkt \in {Framed(<<2>>), Framed(<<128, 0, 160>>), Framed(<<1, 64, 160>>)}
    /\ mc_last.ret = AVERROR_INVALIDDATA
    /\ mc = InitMergeContext

\* ------------------------------------------------------------------------
\* The POC state and the NAL unit types
\* ------------------------------------------------------------------------
\* MAIN profile with the POC derived from the temporal id: parameter sets,
\* slices that move the POC state, and SEI, APS and filler data units
MaxPocCalls == 4

PocUnits ==
    { SpsPacket(0, 1, 1, 0, 0, 0, 0, 2),
      PpsPacket(0, 0),
      SlicePacket(EVC_IDR_NUT, 0, 0, EVC_SLICE_TYPE_I, 0),
      SlicePacket(EVC_NOIDR_NUT, 0, 0, EVC_SLICE_TYPE_B, 0),
      SlicePacket(EVC_NOIDR_NUT, 1, 0, EVC_SLICE_TYPE_B, 0),
      OtherPacket(EVC_SEI_NUT, 3),
      OtherPacket(EVC_APS_NUT, 3),
      OtherPacket(EVC_FD_NUT, 3) }

\* Streams for the parser, which is handed one unit in each call
PocStreams ==
    { SpsPacket(0, 1, 1, 0, 0, 0, 0, 2) \o PpsPacket(0, 0)
         \o SlicePacket(EVC_NOIDR_NUT, 0, 0, EVC_SLICE_TYPE_B, 0)
         \o OtherPacket(EVC_SEI_NUT, 3)
         \o SlicePacket(EVC_NOIDR_NUT, 1, 0, EVC_SLICE_TYPE_B, 0)
         \o OtherPacket(EVC_APS_NUT, 3) \o OtherPacket(EVC_FD_NUT, 3)
         \o PpsPacket(0, 0) \o SpsPacket(0, 1, 1, 0, 0, 0, 0, 2),
      SpsPacket(0, 1, 1, 0, 0, 0, 0, 2) \o PpsPacket(0, 0)
         \o SlicePacket(EVC_IDR_NUT, 0, 0, EVC_SLICE_TYPE_I, 0)
         \o OtherPacket(EVC_FD_NUT, 3)
         \o SlicePacket(EVC_NOIDR_NUT, 0, 0, EVC_SLICE_TYPE_B, 0)
         \o PpsPacket(0, 0) }

\* A run drives the parser over one of the streams, or, given no stream,
\* the bitstream filter over the packets
InitPoc ==
    /\ BsfInit /\ ps_stream \in PocStreams \cup {<<>>} /\ ParserInit
    /\ dm_stream = <<>> /\ DemuxInit /\ MuxIdle /\ GolombIdle /\ NoteInit /\ EncIdle

NextPoc ==
    \/ /\ ps_stream = <<>>
       /\ \E pkt \in PocUnits, junk \in MallocContents : BsfFilter(pkt, junk, MaxPocCalls)
    \/ ParserFeed("whole", UnitEnd(ps_stream, ps["whole"].pos) - ps["whole"].pos)
    \/ ParserEof("whole")

SpecPoc == InitPoc /\ [][NextPoc]_vars

\* The step is a call of evc_parse with a chunk that is one whole unit
ParserCallOnUnit ==
    /\ ps["whole"].status = "run"
    /\ ps'["whole"] # ps["whole"]
    /\ ps["whole"].ctx.to_read = 0
    /\ Len(ps'["whole"].last.chunk) > EVC_NALU_LENGTH_PREFIX_SIZE
    /\ read_nal_unit_length(ps'["whole"].last.chunk)
          = Len(ps'["whole"].last.chunk) - EVC_NALU_LENGTH_PREFIX_SIZE

\* C17: PicOrderCntVal, prevPicOrderCntVal and DocOffset change only while
\* an IDR or non-IDR slice NAL unit is processed: a call on an SPS, PPS, SEI,
\* APS, filler or any other unit leaves all three as they were, in the
\* bitstream filter and in the parser.
C17_PocChangedBySlicesOnly ==
    [][/\ (mc_calls' = mc_calls + 1 /\ ~IsSliceUnit(PacketUnit(mc_last'.pkt)))
             => mc'.pc.poc = mc.pc.poc
       /\ (ParserCallOnUnit /\ ~IsSliceUnit(PacketUnit(ps'["whole"].last.chunk)))
             => ps'["whole"].ctx.pc.poc = ps["whole"].ctx.pc.poc]_vars

\* The filter took an SEI unit after a slice had moved the POC state
C17_SeiAfterSlice ==
    /\ mc_calls = 4
    /\ mc_last.pkt = OtherPacket(EVC_SEI_NUT, 3)
    /\ mc_last.ret = AVERROR_EAGAIN
    /\ mc.pc.poc.PicOrderCntVal = 4
    /\ mc.pc.poc.prevPicOrderCntVal = 4

\* The parser took filler data after slices had moved the POC state
C17_ParserFillerAfterSlice ==
    /\ ps["whole"].last.chunk = OtherPacket(EVC_FD_NUT, 3)
    /\ ps["whole"].last.next = END_NOT_FOUND
    /\ ps["whole"].ctx.pc.poc # ZeroPoc

\* A slice moved the POC state
C17_SliceMovedPoc ==
    /\ mc_calls > 0
    /\ IsSliceUnit(PacketUnit(mc_last.pkt))
    /\ mc_last.ret \in {0, AVERROR_EAGAIN}
    /\ mc.pc.poc # ZeroPoc

\* ------------------------------------------------------------------------
\* Replacing a stored SPS
\* ------------------------------------------------------------------------
\* The SPS that the payload of pkt describes: the record ff_evc_parse_sps
\* stores when nothing was stored before and the new slot holds zeros
SpsOfPayload(pkt) ==
    ff_evc_parse_sps(PacketPayload(pkt), InitParserContext,
                     [sps |-> ZeroSps, pps |-> ZeroPps, sh |-> ZeroSliceHeader]
                    ).ev.sps[PacketId(pkt)]

\* C18: the SPS record stored under an id is determined by the payload
\* alone: whatever was stored under the id before, every field of the
\* record, the flag-gated ones the payload does not carry included, is what
\* the payload describes.
C18_SpsFromPayloadAlone ==
    [][(FilterCallOn(EVC_SPS_NUT) /\ mc_last'.ret \in {0, AVERROR_EAGAIN})
          => mc'.pc.sps[PacketId(mc_last'.pkt)] = SpsOfPayload(mc_last'.pkt)]_vars

\* An SPS without the ADMVP tools replaced one with them under id 0 and
\* kept its sps_mmvd_flag
C18_StaleMmvdFlag ==
    /\ mc_calls = 2
    /\ mc_last.pkt = SpsPacket(0, 1, 1, 0, 0, 0, 0, 2)
    /\ mc_last.ret = AVERROR_EAGAIN
    /\ mc.pc.sps[0].sps_admvp_flag = 0
    /\ mc.pc.sps[0].sps_mmvd_flag = 1
    /\ mc_acc[1] = SpsPacket(0, 1, 1, 1, 1, 0, 0, 2)

\* ------------------------------------------------------------------------
\* The evcC record
\* ------------------------------------------------------------------------
\* Extradata for the evcC writer: up to MaxMuxUnits units out of SPSs of
\* both profiles and two chroma formats, a PPS, an APS and a slice; data
\* that is an evcC record already; data shorter than 8 bytes
MaxMuxUnits == 2

MuxUnits ==
    { SpsPacket(0, 0, 1, 0, 0, 0, 0, 2), SpsPacket(0, 1, 1, 0, 0, 1, 0, 2),
      SpsPacket(1, 1, 2, 1, 1, 0, 0, 2),
      PpsPacket(0, 0),
      OtherPacket(EVC_APS_NUT, 3),
      SlicePacket(EVC_IDR_NUT, 0, 0, EVC_SLICE_TYPE_I, 0) }

MuxInputs ==
    UNION { { Concat(units) : units \in [1..n -> MuxUnits] } : n \in 1..MaxMuxUnits }
    \cup { <<1, 1, 30, 0, 0, 0, 0, 0, 0, 0, 0, 64, 0, 3, 0, 2, 255, 0>>,
           Framed(NalHeader(EVC_SPS_NUT, 0)) }

\* What the local that evcc_parse_sps tests without assigning may hold
IdLocalValues == {0, EVC_MAX_SPS_COUNT}

InitMux ==
    /\ BsfInit /\ ps_stream = <<>> /\ ParserInit
    /\ dm_stream = <<>> /\ dm = [ctx |-> InitDemuxContext, status |-> "run", pos |-> 0,
                                 last |-> NoRead]
    /\ mx_data \in MuxInputs /\ MuxInit /\ GolombIdle /\ NoteInit /\ EncIdle

NextMux ==
    \E ps_array_completeness \in {0, 1}, id_local \in IdLocalValues :
        MuxWrite(ps_array_completeness, id_local)

SpecMux == InitMux /\ [][NextMux]_vars

\* The SPS NAL units of the length-prefixed data
SpsUnitsOf(data) ==
    { UnitAt(data, p) : p \in { q \in UnitStarts(data, 0) :
                                    get_nalu_type(UnitAt(data, q)) = EVC_SPS_NUT } }

\* The syntax elements of the SPS NAL unit nal, read from its payload behind
\* the 2-byte NAL unit header
SpsSyntaxOf(nal) == evcc_sps_syntax(SubSeq(nal, EVC_NALU_HEADER_SIZE + 1, Len(nal)))

\* The evcC record out carries the syntax elements sps
EvccCarries(out, sps) ==
    /\ out[2] = sps.profile_idc
    /\ out[3] = sps.level_idc
    /\ SubSeq(out, 4, 7) = sps.toolset_idc_h
    /\ SubSeq(out, 8, 11) = sps.toolset_idc_l
    /\ out[12] \div 64 = sps.chroma_format_idc
    /\ (out[12] \div 8) % 8 = sps.bit_depth_luma_minus8
    /\ out[12] % 8 = sps.bit_depth_chroma_minus8
    /\ out[13] * 256 + out[14] = sps.pic_width_in_luma_samples
    /\ out[15] * 256 + out[16] = sps.pic_height_in_luma_samples

\* C19: for extradata that holds an SPS NAL unit, the evcC record written
\* carries in profile_idc, level_idc, toolset_idc_h, toolset_idc_l,
\* chroma_format_idc, the bit depths and the picture width and height the
\* values of the syntax elements of an SPS of the extradata, read from the
\* payload behind the 2-byte NAL unit header.
C19_EvccCarriesSps ==
    (/\ mx.status = "done"
     /\ mx.ret = 0
     /\ mx_data[1] # 1
     /\ SpsUnitsOf(mx_data) # {})
        => \E nal \in SpsUnitsOf(mx_data) : EvccCarries(mx.out, SpsSyntaxOf(nal))

\* The record written for a single MAIN profile SPS (profile_idc 1,
\* level_idc 30) has the profile_idc and level_idc that a parse from the
\* NAL unit header yields
C19_ParsedFromHeader ==
    /\ mx_data = SpsPacket(0, 1, 1, 0, 0, 1, 0, 2)
    /\ mx.status = "done"
    /\ mx.ret = 0
    /\ mx.out[2] = evcc_sps_syntax(PacketUnit(mx_data)).profile_idc
    /\ mx.out[2] # 1
    /\ mx.out[3] # 30

\* The record written for the same SPS when the range test on the
\* unassigned local fails: nothing of the SPS is in it
C19_RecordLeftZero ==
    /\ mx_data = SpsPacket(0, 1, 1, 0, 0, 1, 0, 2)
    /\ mx.status = "done"
    /\ mx.ret = 0
    /\ SubSeq(mx.out, 2, 16) = Zeros(15)

\* ------------------------------------------------------------------------
\* Determinism of the implicit POC derivation
\* ------------------------------------------------------------------------
\* An SPS and a slice header of which nothing is known but sub_gop =
\* 2^log2_sub_gop_length
SpsOfSubGop(log2_sub_gop_length) ==
    [ZeroSps EXCEPT !.log2_sub_gop_length = log2_sub_gop_length]

\* The step is a call of evc_frame_merge_filter on a slice whose SPS, the
\* one stored under the slice's pps id, derives the POC from the temporal id,
\* and the call got as far as the POC derivation
ImplicitSliceCall ==
    /\ \/ FilterCallOn(EVC_IDR_NUT)
       \/ FilterCallOn(EVC_NOIDR_NUT)
    /\ PacketId(mc_last'.pkt) \in DOMAIN mc.pc.pps
    /\ PacketId(mc_last'.pkt) \in DOMAIN mc.pc.sps
    /\ mc.pc.sps[PacketId(mc_last'.pkt)].sps_pocs_flag = 0
    /\ mc_status' = "hang" \/ mc_last'.ret \in {0, AVERROR_EAGAIN}

\* C20: the implicit POC branch is deterministic.  The PocState a slice
\* leaves, and whether the derivation ends at all, is a function of the
\* PocState before the call, sub_gop, the NAL unit type and the temporal id:
\* any two runs that agree on these agree on every POC and on the final
\* PocState, whatever else the context, the stored parameter sets and slice
\* headers and freshly allocated memory hold.
C20_ImplicitPocDeterministic ==
    [][ImplicitSliceCall
         => /\ (mc_status' = "hang")
                  = poc_derivation(mc.pc.poc,
                        SpsOfSubGop(mc.pc.sps[PacketId(mc_last'.pkt)].log2_sub_gop_length),
                        ZeroSliceHeader, HeaderType(mc_last'.pkt),
                        HeaderTid(mc_last'.pkt)).hang
            /\ mc_status' = "run"
                  => mc'.pc.poc
                       = poc_derivation(mc.pc.poc,
                            SpsOfSubGop(mc.pc.sps[PacketId(mc_last'.pkt)].log2_sub_gop_length),
                            ZeroSliceHeader, HeaderType(mc_last'.pkt),
                            HeaderTid(mc_last'.pkt)).poc]_vars

\* A run in which the slice header slot was allocated with a
\* slice_pic_order_cnt_lsb of 5 left in it has derived POC 2 at temporal id 1
\* after POC 4 at temporal id 0, as a run with a zeroed slot does
C20_SamePocWithStaleLsb ==
    /\ Returned
    /\ HeaderType(mc_last.pkt) = EVC_NOIDR_NUT
    /\ HeaderTid(mc_last.pkt) = 1
    /\ mc.pc.slice_header[0].slice_pic_order_cnt_lsb = 5
    /\ mc.pc.poc = [PicOrderCntVal |-> 2, prevPicOrderCntVal |-> 4, DocOffset |-> 1]

\* The run with the zeroed slot
C20_SamePocWithZeroedLsb ==
    /\ Returned
    /\ HeaderType(mc_last.pkt) = EVC_NOIDR_NUT
    /\ HeaderTid(mc_last.pkt) = 1
    /\ mc.pc.slice_header[0].slice_pic_order_cnt_lsb = 0
    /\ mc.pc.poc = [PicOrderCntVal |-> 2, prevPicOrderCntVal |-> 4, DocOffset |-> 1]


\* ------------------------------------------------------------------------
\* The Exp-Golomb codes
\* ------------------------------------------------------------------------
\* Number of syntax elements in a string
MaxGolombCodes == 2

\* Values at both ends of the code lengths 1, 3, 5, 7, 9, 15, 17 and 31
UeValues == {0, 1, 2, 3, 6, 7, 14, 15, 254, 255, 65534, 65535}

SeValues == {0, 1, -1, 2, -2, 3, -3, 4, -4, 127, -127, 128, -128, 32767, -32768}

GolombCodes ==
    { [signed |-> FALSE, v |-> v] : v \in UeValues }
    \cup { [signed |-> TRUE, v |-> v] : v \in SeValues }

RECURSIVE CodeBits(_)
CodeBits(codes) ==
    IF codes = <<>> THEN <<>>
    ELSE (IF Head(codes).signed THEN write_se(Head(codes).v) ELSE write_ue(Head(codes).v))
         \o CodeBits(Tail(codes))

\* A reader over the RBSP that carries the codes one after the other
InitGolomb ==
    /\ BsfInit /\ ps_stream = <<>> /\ ParserInit
    /\ dm_stream = <<>> /\ DemuxInit /\ MuxIdle /\ NoteInit /\ EncIdle
    /\ \E n \in 1..MaxGolombCodes : \E codes \in [1..n -> GolombCodes] :
           gl = [codes |-> codes, gb |-> init_get_bits8(Rbsp(CodeBits(codes))),
                 vals |-> <<>>]

NextGolomb == GolombReadUe \/ GolombReadSe

SpecGolomb == InitGolomb /\ [][NextGolomb]_vars

\* C21: every value read from the string is the value that was written
\* there: get_ue_golomb returns v from the code of k zero bits, a one bit
\* and k suffix bits with v = 2^k - 1 + suffix, and get_se_golomb returns v
\* from the signed code of v, also when other codes stand in front of it.
C21_ExpGolombRoundTrip ==
    /\ Len(gl.vals) <= Len(gl.codes)
    /\ \A i \in 1..Len(gl.vals) : gl.vals[i] = gl.codes[i].v

\* A 17-bit unsigned code and a negative signed value read back
C21_BothCodesRead ==
    /\ gl.codes = <<[signed |-> FALSE, v |-> 255], [signed |-> TRUE, v |-> -128]>>
    /\ gl.vals = <<255, -128>>
    /\ gl.gb.index = 34


\* ------------------------------------------------------------------------
\* Termination of the POC derivation
\* ------------------------------------------------------------------------
\* C22: every call on a non-IDR slice in the implicit branch returns: the
\* loop that advances DocOffset until the expected temporal id equals the
\* temporal id of the slice ends for every temporal id.
C22_PocDerivationTerminates == mc_status # "hang"

\* A slice at temporal id 3 with SubGopLength 4, whose offsets 0..3 expect
\* the temporal ids 0, 1, 2, 2: the call on it never returned
C22_LoopNeverEnds ==
    /\ mc_status = "hang"
    /\ HeaderType(mc_last.pkt) = EVC_NOIDR_NUT
    /\ HeaderTid(mc_last.pkt) = 3
    /\ \A d \in 0..3 : ExpectedTemporalId(d) # 3


\* ------------------------------------------------------------------------
\* AU boundaries in the MAIN profile
\* ------------------------------------------------------------------------
\* The step is a call that accepted a non-IDR slice in the MAIN profile and
\* derived for it a POC other than the one derived for the slice before
MainNonIdrWithNewPoc ==
    /\ FilterCallOn(EVC_NOIDR_NUT)
    /\ mc_status' = "run"
    /\ mc_last'.ret \in {0, AVERROR_EAGAIN}
    /\ mc'.profile = FF_PROFILE_EVC_MAIN
    /\ mc.pc.poc # ZeroPoc
    /\ mc'.pc.poc.PicOrderCntVal # mc.pc.poc.PicOrderCntVal

\* C23: in the MAIN profile every non-IDR slice whose POC differs from the
\* POC of the preceding slice ends an Access Unit: the call on it outputs
\* the AU, in the explicit and in the implicit POC branch.
C23_NewPocEndsAu ==
    [][MainNonIdrWithNewPoc => mc_last'.ret = 0 /\ Len(mc_last'.out) > 0]_vars

\* MAIN profile, implicit branch: after an IDR slice (POC 0) a non-IDR slice
\* at temporal id 0 got POC 4 and was buffered, no AU was output
C23_Tid0SliceBuffered ==
    /\ mc.profile = FF_PROFILE_EVC_MAIN
    /\ HeaderType(mc_last.pkt) = EVC_NOIDR_NUT
    /\ HeaderTid(mc_last.pkt) = 0
    /\ mc_last.ret = AVERROR_EAGAIN
    /\ mc.pc.poc = [PicOrderCntVal |-> 4, prevPicOrderCntVal |-> 4, DocOffset |-> 0]
    /\ mc_acc = <<mc_last.pkt>>


\* ------------------------------------------------------------------------
\* The value evc_find_frame_end returns at the end of an AU
\* ------------------------------------------------------------------------
\* C24: when evc_find_frame_end reports the end of an AU, the value it
\* returns is a position within the chunk it was given: greater than 0 and
\* at most the size of the chunk, also when the AU began in an earlier chunk.
C24_FrameEndWithinChunk ==
    \A w \in Feeders :
        (ps[w].status = "run" /\ Len(ps[w].last.chunk) > 0 /\ ps[w].last.next >= 0)
            => /\ ps[w].last.next > 0
               /\ ps[w].last.next <= Len(ps[w].last.chunk)

\* The end of an AU that began in an earlier chunk was reported at a position
\* beyond the end of the chunk
C24_FrameEndBeyondChunk ==
    /\ ps["split"].status = "run"
    /\ ps["split"].last.next > Len(ps["split"].last.chunk)
    /\ Len(ps["split"].last.chunk) > 0


\* ------------------------------------------------------------------------
\* The POC of an IDR picture
\* ------------------------------------------------------------------------
\* C25: after an IDR slice is processed PicOrderCntVal is 0, in the explicit
\* and in the implicit branch, whatever slices were processed before it.
C25_IdrPocIsZero ==
    [][(FilterCallOn(EVC_IDR_NUT) /\ mc_status' = "run"
                                  /\ mc_last'.ret \in {0, AVERROR_EAGAIN})
          => mc'.pc.poc.PicOrderCntVal = 0]_vars

\* Explicit branch: an IDR slice was given POC 7, the slice_pic_order_cnt_lsb
\* that a non-IDR slice before it had left in the slice header of pps id 0
C25_IdrTookStaleLsb ==
    /\ Returned
    /\ HeaderType(mc_last.pkt) = EVC_IDR_NUT
    /\ mc_last.ret = 0
    /\ mc.pc.slice_header[0].slice_pic_order_cnt_lsb = 7
    /\ mc.pc.poc.PicOrderCntVal = 7


\* ------------------------------------------------------------------------
\* The POCs of a sub-GOP in the implicit branch
\* ------------------------------------------------------------------------
MaxHierCalls == 6

\* BASELINE profile, POC derived from the temporal id, SubGopLength 2 and 4;
\* non-IDR slices at the temporal ids 0..3 and an IDR slice
HierPackets ==
    { SpsPacket(0, 0, 1, 0, 0, 0, 0, 1), SpsPacket(0, 0, 1, 0, 0, 0, 0, 2),
      PpsPacket(0, 0),
      SlicePacket(EVC_IDR_NUT, 0, 0, EVC_SLICE_TYPE_I, 0) }
    \cup { SlicePacket(EVC_NOIDR_NUT, t, 0, EVC_SLICE_TYPE_B, 0) : t \in 0..3 }

NextHier ==
    \E pkt \in HierPackets, junk \in MallocContents : BsfFilterNoting(pkt, junk, MaxHierCalls)

SpecHier == Init /\ [][NextHier]_vars

\* The temporal id of the d-th picture of a sub-GOP in decoding order
HierarchicalTid(d) == 1 + FloorLog2(d)

\* The notes i, i + 1, ... are a non-IDR picture at temporal id 0 and the
\* SubGopLength - 1 non-IDR pictures that follow it in hierarchical order
SubGopAt(i) ==
    /\ pl[i].nalu_type = EVC_NOIDR_NUT
    /\ pl[i].tid = 0
    /\ i + pl[i].SubGopLength - 1 <= Len(pl)
    /\ \A d \in 1..(pl[i].SubGopLength - 1) :
          /\ pl[i + d].nalu_type = EVC_NOIDR_NUT
          /\ pl[i + d].tid = HierarchicalTid(d)
          /\ pl[i + d].SubGopLength = pl[i].SubGopLength

\* C26: the SubGopLength - 1 pictures that follow a temporal-id-0 picture
\* with POC P in hierarchical decoding order get the POCs P - SubGopLength + 1
\* .. P - 1, each exactly once; and every non-IDR picture at a temporal id
\* above 0 gets a POC strictly between prevPicOrderCntVal - SubGopLength and
\* prevPicOrderCntVal.
C26_SubGopPocsPermutation ==
    /\ \A i \in 1..Len(pl) :
          SubGopAt(i) =>
             /\ { pl[i + d].poc.PicOrderCntVal : d \in 1..(pl[i].SubGopLength - 1) }
                   = (pl[i].poc.PicOrderCntVal - pl[i].SubGopLength + 1)
                        .. (pl[i].poc.PicOrderCntVal - 1)
             /\ \A d, e \in 1..(pl[i].SubGopLength - 1) :
                   pl[i + d].poc.PicOrderCntVal = pl[i + e].poc.PicOrderCntVal => d = e
    /\ \A i \in 1..Len(pl) :
          (pl[i].nalu_type = EVC_NOIDR_NUT /\ pl[i].tid > 0) =>
             /\ pl[i].poc.PicOrderCntVal > pl[i].poc.prevPicOrderCntVal - pl[i].SubGopLength
             /\ pl[i].poc.PicOrderCntVal < pl[i].poc.prevPicOrderCntVal

\* A sub-GOP of 4 pictures was run through the filter: POC 4 at temporal id
\* 0, then 2, 1 and 3 at the temporal ids 1, 2 and 2
C26_SubGopOfFour ==
    /\ Len(pl) = 4
    /\ SubGopAt(1)
    /\ pl[1].SubGopLength = 4
    /\ [i \in 1..4 |-> pl[i].poc.PicOrderCntVal] = <<4, 2, 1, 3>>

\* A sub-GOP of 2 pictures that follows another
C26_SubGopOfTwo ==
    /\ Len(pl) = 4
    /\ SubGopAt(3)
    /\ pl[3].SubGopLength = 2
    /\ pl[3].poc.PicOrderCntVal = 4
    /\ pl[4].poc.PicOrderCntVal = 3


\* ------------------------------------------------------------------------
\* The bytes that pass through the filter
\* ------------------------------------------------------------------------
\* The bytes held in the AU buffer
AuBufferContent(ctx) == SubSeq(ctx.au_buffer.data, 1, ctx.au_buffer.data_size)

\* C27: the AUs output so far followed by the content of the AU buffer are
\* the packets whose NAL unit was parsed successfully, in arrival order.
\* Call by call: the AU a call outputs (if any) followed by the buffer it
\* leaves is the buffer it found followed by its packet when the packet was
\* accepted; a call that fails outputs nothing and leaves the content of the
\* buffer as it was.
C27_BytesConserved ==
    [][(mc_calls' = mc_calls + 1 /\ mc_status' = "run") =>
          IF mc_last'.ret \in {0, AVERROR_EAGAIN}
          THEN mc_last'.out \o AuBufferContent(mc')
                  = AuBufferContent(mc) \o mc_last'.pkt
          ELSE /\ mc_last'.out = <<>>
               /\ AuBufferContent(mc') = AuBufferContent(mc)]_vars

\* Of three calls one failed, on a slice with no PPS stored: the buffer holds
\* the SEI unit and the SPS of the two other calls and no byte of the slice
C27_FailedPacketLeftOut ==
    /\ mc_calls = 3
    /\ mc_last.ret = AVERROR_EAGAIN
    /\ mc_acc = <<OtherPacket(EVC_SEI_NUT, 3), SpsPacket(0, 0, 1, 0, 0, 0, 0, 2)>>
    /\ AuBufferContent(mc) = Concat(mc_acc)

\* An AU was output and the buffer is empty again
C27_AuOutput ==
    /\ mc_calls = 3
    /\ mc_last.ret = 0
    /\ Len(mc_last.out) > Len(mc_last.pkt)
    /\ AuBufferContent(mc) = <<>>


\* ------------------------------------------------------------------------
\* The store after a parse that failed
\* ------------------------------------------------------------------------
MaxFailCalls == 4

\* An SPS, a PPS that names it, a PPS of the same id whose
\* pps_seq_parameter_set_id is beyond the SPS table, a PPS of id 1 and slices
\* that refer to the pps ids 0 and 1
FailPackets ==
    { SpsPacket(0, 0, 1, 0, 0, 0, 0, 2),
      PpsPacket(0, 0), PpsPacket(0, EVC_MAX_SPS_COUNT), PpsPacket(1, 0),
      SlicePacket(EVC_NOIDR_NUT, 0, 0, EVC_SLICE_TYPE_P, 0),
      SlicePacket(EVC_NOIDR_NUT, 0, 1, EVC_SLICE_TYPE_P, 0) }

NextFail ==
    \E pkt \in FailPackets, junk \in MallocContents : BsfFilter(pkt, junk, MaxFailCalls)

SpecFail == Init /\ [][NextFail]_vars

\* C28: a call in which ff_evc_parse_pps or ff_evc_parse_slice_header fails
\* leaves the tables of parameter sets as they were: no PPS slot becomes
\* present and no stored SPS or PPS is modified.
C28_FailedParseLeavesStore ==
    [][((FilterCallOn(EVC_PPS_NUT) \/ FilterCallOn(EVC_NOIDR_NUT))
         /\ mc_status' = "run" /\ mc_last'.ret = AVERROR_INVALIDDATA)
          => (mc'.pc.pps = mc.pc.pps /\ mc'.pc.sps = mc.pc.sps)]_vars

\* A slice of pps id 0 was accepted although the only PPS with id 0 ever given
\* was the one whose parse failed
C28_SliceResolvedFailedPps ==
    /\ mc_calls = 3
    /\ mc_last.pkt = SlicePacket(EVC_NOIDR_NUT, 0, 0, EVC_SLICE_TYPE_P, 0)
    /\ mc_last.ret = 0
    /\ 0 \in DOMAIN mc.pc.pps
    /\ mc.pc.pps[0].pps_seq_parameter_set_id = EVC_MAX_SPS_COUNT
    /\ mc_last.out = SpsPacket(0, 0, 1, 0, 0, 0, 0, 2) \o mc_last.pkt

\* The parse of a PPS failed and changed pps_seq_parameter_set_id of the PPS
\* stored under its id
C28_StoredPpsModified ==
    /\ mc_last.pkt = PpsPacket(0, EVC_MAX_SPS_COUNT)
    /\ mc_last.ret = AVERROR_INVALIDDATA
    /\ Len(mc_acc) >= 1
    /\ mc_acc[Len(mc_acc)] = PpsPacket(0, 0)
    /\ mc.pc.pps[0].pps_seq_parameter_set_id = EVC_MAX_SPS_COUNT


\* ------------------------------------------------------------------------
\* Flushing the filter
\* ------------------------------------------------------------------------
MaxFlushCalls == 4

\* BASELINE profile: parameter sets, an SEI unit and a slice that ends an AU
FlushPackets ==
    { SpsPacket(0, 0, 1, 0, 0, 0, 0, 2), PpsPacket(0, 0),
      OtherPacket(EVC_SEI_NUT, 3),
      SlicePacket(EVC_NOIDR_NUT, 0, 0, EVC_SLICE_TYPE_P, 0) }

NextFlush ==
    \/ \E pkt \in FlushPackets, junk \in MallocContents : BsfFilter(pkt, junk, MaxFlushCalls)
    \/ BsfFlush

SpecFlush == Init /\ [][NextFlush]_vars

\* The step is a flush
FlushStep == mc_last # NoCall /\ mc_last' = NoCall /\ mc_calls' = mc_calls

\* The step is the first call after a flush, and it outputs an AU
AuAfterFlush ==
    /\ mc_calls > 0 /\ mc_last = NoCall
    /\ mc_calls' = mc_calls + 1
    /\ mc_status' = "run" /\ mc_last'.ret = 0

\* C29: after evc_frame_merge_flush the AU buffer is empty, and an AU output
\* after the flush holds no byte of a packet given before it: the AU that
\* the first call after a flush outputs is the packet of that call.
C29_FlushEmptiesBuffer ==
    [][/\ FlushStep => AuBufferContent(mc') = <<>>
       /\ AuAfterFlush => mc_last'.out = mc_last'.pkt]_vars

\* The buffer holds the SPS and the PPS right after a flush
C29_BufferKeptOverFlush ==
    /\ mc_calls = 2
    /\ mc_last = NoCall
    /\ AuBufferContent(mc) = SpsPacket(0, 0, 1, 0, 0, 0, 0, 2) \o PpsPacket(0, 0)

\* ------------------------------------------------------------------------
\* The states of the encoder wrapper
\* ------------------------------------------------------------------------
MaxEncCalls == 4

\* The frames handed to the encoder: none (the end of the input) or a frame
\* of some pixel format, which need not have a descriptor
EncFrames ==
    {<<>>} \cup {<<[format |-> f, pts |-> p]>> :
                     f \in {"yuv420p", "yuv420p10", "none"}, p \in 0..1}

\* The outcomes of the calls into the engine and of av_grow_packet
EngOutcomes ==
    LET all == [bumping : {0, -1}, push : {0, -1},
                encode : {"XEVE_OK", "XEVE_OK_OUT_NOT_AVAILABLE", "XEVE_OK_NO_MORE_FRM",
                          "XEVE_OK_FRM_DELAYED", "XEVE_ERR"},
                write : 0..1, grow : {0, -1}, stype : {"XEVE_ST_I", "XEVE_ST_UNKNOWN"}]
    IN  {e \in all :
            \* what is not looked at has one value
            /\ e.encode # "XEVE_OK" => e.write = 0
            /\ e.write = 0 => e.grow = 0
            /\ e.grow # 0 => e.stype = "XEVE_ST_I"}

InitEnc ==
    /\ BsfInit /\ ps_stream = <<>> /\ ParserInit
    /\ dm_stream = <<>> /\ DemuxInit /\ MuxIdle /\ GolombIdle /\ NoteInit
    /\ \E f \in {"yuv420p", "yuv420p10"}, be \in BOOLEAN : EncInit(f, be)

NextEnc == \E frame \in EncFrames, eng \in EngOutcomes : EncEncode(frame, eng, MaxEncCalls)

SpecEnc == InitEnc /\ [][NextEnc]_vars

\* A step that is one call of libxeve_encode
EncStep == xe'.calls = xe.calls + 1

\* The checks of lines 985..995 let the frame through to xeve_push
PushAllowed(xc, frame) ==
    /\ av_pix_fmt_desc_get(frame[1].format)
    /\ xeve_color_space(xc.pix_fmt, xc.bigendian)
           \in {"XEVE_CS_YCBCR420", "XEVE_CS_YCBCR420_10LE"}

\* What the calls have in common whatever the pixel formats are
EncCommon ==
    /\ xe.calls = 0 => xe.ctx.state = STATE_ENCODING
    /\ xe'.last.pushed # <<>> =>
           /\ xe'.ctx.state = STATE_ENCODING
           /\ xe'.last.frame # <<>>
           /\ xe'.last.pushed = xe'.last.frame
    /\ xe.ctx.state = STATE_ENCODING /\ xe'.last.frame = <<>> =>
           xe'.ctx.state \in {STATE_BUMPING, STATE_SKIPPING}
    /\ xe.ctx.state = STATE_BUMPING => xe'.ctx.state = STATE_BUMPING
    /\ xe.ctx.state = STATE_SKIPPING /\ xe'.last.frame = <<>> =>
           /\ xe'.last.ret = -1
           /\ xe'.last.pushed = <<>>
           /\ ~xe'.last.encoded

\* C30 as stated: the encoder starts in STATE_ENCODING; in every call a frame
\* is pushed to the engine if and only if the state after the transition step
\* is STATE_ENCODING, and a pushed frame is not NULL; a NULL frame in
\* STATE_ENCODING moves to STATE_BUMPING or STATE_SKIPPING; STATE_BUMPING
\* is never left; a call in STATE_SKIPPING without a frame returns an error
\* and does not call the engine.
C30_PushedIffEncoding ==
    [][EncStep =>
          /\ EncCommon
          /\ xe'.last.pushed # <<>> <=> xe'.ctx.state = STATE_ENCODING]_vars

\* C30, amended: a frame is pushed only if the state after the transition
\* step is STATE_ENCODING; in that state the frame is pushed exactly when its
\* pixel format has a descriptor and the colour space of the encoder's pixel
\* format is XEVE_CS_YCBCR420 or XEVE_CS_YCBCR420_10LE, and otherwise the call
\* returns -1 without calling the engine; the rest is as stated.
C30_PushedIffEncodingAndFormatOk ==
    [][EncStep =>
          /\ EncCommon
          /\ xe'.ctx.state = STATE_ENCODING =>
                 /\ xe'.last.pushed # <<>> <=> PushAllowed(xe.ctx, xe'.last.frame)
                 /\ xe'.last.pushed = <<>> =>
                        xe'.last.ret = -1 /\ ~xe'.last.encoded]_vars

\* C30 witness: a call in STATE_ENCODING with a frame ended before xeve_push
C30_FrameRefusedBeforePush ==
    /\ xe.calls > 0
    /\ xe.ctx.state = STATE_ENCODING
    /\ xe.last.frame # <<>>
    /\ xe.last.pushed = <<>>
    /\ xe.last.ret = -1

\* Frames were pushed and encoded, the input ended, and a frame handed in
\* afterwards was encoded without being pushed
C30_FrameInBumpingNotPushed ==
    /\ xe.ctx.state = STATE_BUMPING
    /\ xe.ctx.packet_count >= 2
    /\ xe.last.frame # <<>>
    /\ xe.last.pushed = <<>>
    /\ xe.last.encoded

\* The encoder came back from STATE_SKIPPING and pushed a frame
C30_ResumedFromSkipping ==
    /\ xe.ctx.state = STATE_ENCODING
    /\ xe.ctx.encod_frames = 1
    /\ xe.calls = 4
    /\ xe.last.pushed # <<>>

============================================================================
